---- MODULE Spec2Model ----
(***************************************************************************)
(* Session state and follow-up detection of the Nutri_AI backend.          *)
(*                                                                         *)
(*   backend/app/memory/session_store.py    InMemorySessionStore           *)
(*   backend/app/utils/session_manager.py   SessionManager                 *)
(*   backend/app/utils/followup_detector.py is_followup_question,          *)
(*                                          should_use_food_context        *)
(*   backend/app/services/intent_service.py AINativeIntentService          *)
(*   backend/app/api/routes/chat.py         chat_stream_ai_native,         *)
(*                                          generate_stream                *)
(*   backend/app/api/routes/analyze.py      analyze_text_ai_native,        *)
(*                                          analyze_image_ai_native        *)
(*   backend/app/api/routes/intent.py       infer_intent                   *)
(*   backend/app/utils/rate_limit.py        RateLimiter                    *)
(*                                                                         *)
(* A store object is an instance of one of the two session classes; the    *)
(* variable cls says which.  Python dicts are functions, lists are         *)
(* sequences, None is the tagged value NoneResult.                         *)
(***************************************************************************)
EXTENDS Integers, Sequences, FiniteSets, TLC

VARIABLES
    cls,        \* class of the store object: "InMemorySessionStore" or "SessionManager"
    sessions,   \* self.sessions: session id -> session dict
    seen,       \* session ids that were ever issued by, or passed to, the store
    now,        \* the clock read by time.time() / datetime.now()
    lastCall,   \* the most recent method call: its name, arguments and return value
    calls,      \* per session id, the (role, content) of the append calls made on it
    message,            \* detector input: the user's message
    has_new_image,      \* detector input
    has_food_context,   \* detector input
    detCall,            \* which detector function was called last
    classification,     \* return value of is_followup_question in that call
    use_context,        \* return value of should_use_food_context in that call
    ctxCall,        \* which AINativeIntentService method was called last
    soft_old,       \* merge_context_gently: the old_context argument of that call
    soft_new,       \* merge_context_gently: the new_context argument of that call
    soft_merged,    \* merge_context_gently: its return value, the old_context of the next merge
    inferMessage,   \* soft_infer_context: the message argument of that call
    llm,            \* soft_infer_context: what self.client.generate_text did in that call
    inferred,       \* soft_infer_context: how that call ended (returned a dict / raised)
    food_contexts,  \* session id -> the food_context kept for the session
    slots,          \* the request-handling tasks the server runs
    turns,          \* per task, the request it handles: locals and position in the handler
    served,         \* how many requests were accepted so far
    redis_client,   \* RateLimiter: self.redis_client, "None" or "Redis"
    redis_zsets,    \* the sorted sets of the Redis server: key -> scores
    memory_buckets, \* RateLimiter: self.memory_buckets
    current_time,   \* the clock read by time.time() in check_rate_limit, in seconds
    rlCall,         \* the most recent check_rate_limit call and how it ended
    gen,            \* generate_stream: the generator's locals and position
    emitted         \* what the generator has yielded so far, in order

storeVars == <<cls, sessions, seen, now, lastCall, calls>>
detVars == <<message, has_new_image, has_food_context, detCall, classification, use_context>>
ctxVars == <<ctxCall, soft_old, soft_new, soft_merged, inferMessage, llm, inferred>>
orchVars == <<food_contexts, slots, turns, served>>
rlVars == <<redis_client, redis_zsets, memory_buckets, current_time, rlCall>>
streamVars == <<gen, emitted>>
vars == <<cls, sessions, seen, now, lastCall, calls,
          message, has_new_image, has_food_context, detCall, classification, use_context,
          ctxCall, soft_old, soft_new, soft_merged, inferMessage, llm, inferred,
          food_contexts, slots, turns, served,
          redis_client, redis_zsets, memory_buckets, current_time, rlCall,
          gen, emitted>>

-----------------------------------------------------------------------------
(* Bounds and input sets *)

MaxMsgs == 2

\* requests accepted in one run of the request handlers
MaxTurns == 2

\* hours the clock runs in the runs that let time pass
MaxTime == 3

\* seconds the limiter's clock runs, what it advances by between two calls,
\* and how many entries a Redis sorted set holds at most
MaxClock == 120
ClockStep == 30
MaxEntries == 3

\* words of the longest response that is streamed
MaxWords == 9

SessionIds == {"s1", "s2"}
Roles == {"user", "assistant"}
Contents == {"hello"}
StoreClasses == {"InMemorySessionStore", "SessionManager"}

EmptyDict == <<>>

\* context_updates / context arguments
Partials ==
    { ("goal" :> "curiosity"),
      ("goal" :> "health") @@ ("lang" :> "en") }

\* intent arguments of set_intent
Intents == { ("user_goal" :> "weight_loss") }

\* max_age_hours arguments of cleanup_expired_sessions
MaxAges == {0, 1}

\* Detector inputs: messages are a core of at most two fragments followed by
\* 0..MaxPad filler words and an optional question mark, plus the messages of
\* the documented scenarios
MaxPad == 13

Fragments == {"it", "eat", "daily", "how much", "instead", "why",
              "Dairy Milk", "about", "This"}
Filler == "ok"

MsgVadapav == "Can I eat vadapav daily if I have diabetes?"
MsgSafeForKids == "is it safe for kids?"
MsgEatThisDaily == "can I eat this daily?"
ScenarioMessages == {MsgVadapav, MsgSafeForKids, MsgEatThisDaily}

Cores == {<<>>} \cup {<<a>> : a \in Fragments}
                \cup {<<a, b>> : a \in Fragments, b \in Fragments}

JoinCore(core) ==
    IF Len(core) = 0 THEN ""
    ELSE IF Len(core) = 1 THEN core[1]
    ELSE core[1] \o " " \o core[2]

Padding(k) ==
    LET F[i \in 0..k] == IF i = 0 THEN "" ELSE F[i - 1] \o " " \o Filler
    IN F[k]

Messages ==
    ScenarioMessages \cup
    {JoinCore(core) \o Padding(k) \o q :
        core \in Cores, k \in 0..MaxPad, q \in {"", "?"}}

-----------------------------------------------------------------------------
(* Python values *)

NoneResult == [kind |-> "None", val |-> <<>>]
ListResult(l) == [kind |-> "list", val |-> l]
DictResult(d) == [kind |-> "dict", val |-> d]

\* dict.update(other)
DictUpdate(d, other) ==
    [k \in (DOMAIN d) \cup (DOMAIN other) |->
        IF k \in DOMAIN other THEN other[k] ELSE d[k]]

\* del d[key]
DictDel(d, key) == [k \in (DOMAIN d) \ {key} |-> d[k]]

IsPrefix(s, t) == Len(s) <= Len(t) /\ SubSeq(t, 1, Len(s)) = s

-----------------------------------------------------------------------------
(* InMemorySessionStore: each method as a function of self.sessions *)

InMemorySessionStore_new_session(sid, t) ==
    [id |-> sid, created_at |-> t, messages |-> <<>>,
     context |-> EmptyDict, intent |-> EmptyDict]

InMemorySessionStore_create_session(S, sid, t) ==
    (sid :> InMemorySessionStore_new_session(sid, t)) @@ S

InMemorySessionStore_create_session_if_not_exists(S, sid, t) ==
    IF sid \notin DOMAIN S
    THEN (sid :> InMemorySessionStore_new_session(sid, t)) @@ S
    ELSE S

InMemorySessionStore_get_session(S, sid) ==
    IF sid \in DOMAIN S THEN DictResult(S[sid]) ELSE NoneResult

\* faulty variant: the entry is inserted at the head of the list (messages.insert(0, ...))
InMemorySessionStore_append_message_insert_first(S, sid, role, content, t) ==
    LET S1 == IF sid \notin DOMAIN S
              THEN InMemorySessionStore_create_session_if_not_exists(S, sid, t)
              ELSE S
    IN [S1 EXCEPT ![sid].messages =
            <<[role |-> role, content |-> content, timestamp |-> t]>> \o @]

InMemorySessionStore_append_message(S, sid, role, content, t) ==
    LET S1 == IF sid \notin DOMAIN S
              THEN InMemorySessionStore_create_session_if_not_exists(S, sid, t)
              ELSE S
    IN [S1 EXCEPT ![sid].messages =
            Append(@, [role |-> role, content |-> content, timestamp |-> t])]

InMemorySessionStore_get_history(S, sid) ==
    IF sid \notin DOMAIN S THEN ListResult(<<>>) ELSE ListResult(S[sid].messages)

\* faulty variant: one context dict shared by every session
InMemorySessionStore_set_context_shared(S, sid, context, t) ==
    LET S1 == IF sid \notin DOMAIN S
              THEN InMemorySessionStore_create_session_if_not_exists(S, sid, t)
              ELSE S
    IN [s \in DOMAIN S1 |-> [S1[s] EXCEPT !.context = DictUpdate(@, context)]]

InMemorySessionStore_set_context(S, sid, context, t) ==
    LET S1 == IF sid \notin DOMAIN S
              THEN InMemorySessionStore_create_session_if_not_exists(S, sid, t)
              ELSE S
    IN [S1 EXCEPT ![sid].context = DictUpdate(@, context)]

InMemorySessionStore_get_context(S, sid) ==
    IF sid \notin DOMAIN S THEN DictResult(EmptyDict) ELSE DictResult(S[sid].context)

InMemorySessionStore_set_intent(S, sid, intent, t) ==
    LET S1 == IF sid \notin DOMAIN S
              THEN InMemorySessionStore_create_session_if_not_exists(S, sid, t)
              ELSE S
    IN [S1 EXCEPT ![sid].intent = intent]

InMemorySessionStore_get_intent(S, sid) ==
    IF sid \notin DOMAIN S THEN DictResult(EmptyDict) ELSE DictResult(S[sid].intent)

-----------------------------------------------------------------------------
(* SessionManager: each method as a function of self.sessions *)

SessionManager_create_session(S, sid, t) ==
    (sid :> [created_at |-> t, last_accessed |-> t,
             conversation_history |-> <<>>, context |-> EmptyDict]) @@ S

\* faulty variant: the lookup creates a missing session (self.sessions.setdefault(...))
SessionManager_touch_setdefault(S, sid, t) ==
    IF sid \in DOMAIN S
    THEN [S EXCEPT ![sid].last_accessed = t]
    ELSE SessionManager_create_session(S, sid, t)

\* get_session has a side effect: it stamps last_accessed of a session it finds
SessionManager_touch(S, sid, t) ==
    IF sid \in DOMAIN S THEN [S EXCEPT ![sid].last_accessed = t] ELSE S

SessionManager_get_session(S, sid, t) ==
    IF sid \in DOMAIN S
    THEN DictResult(SessionManager_touch(S, sid, t)[sid])
    ELSE NoneResult

SessionManager_add_message(S, sid, role, content, t) ==
    LET S1 == SessionManager_touch(S, sid, t)
        session == SessionManager_get_session(S, sid, t)
    IN IF session.kind # "None"
       THEN [S1 EXCEPT ![sid].conversation_history =
                Append(@, [role |-> role, content |-> content, timestamp |-> t])]
       ELSE S1

SessionManager_get_conversation_history(S, sid, t) ==
    LET session == SessionManager_get_session(S, sid, t)
    IN IF session.kind # "None"
       THEN ListResult(session.val.conversation_history)
       ELSE ListResult(<<>>)

\* faulty variant: keys already in the context keep their values
SessionManager_update_context_keep_old(S, sid, context_updates, t) ==
    LET S1 == SessionManager_touch(S, sid, t)
    IN IF sid \in DOMAIN S
       THEN [S1 EXCEPT ![sid].context = DictUpdate(context_updates, @)]
       ELSE S1

SessionManager_update_context(S, sid, context_updates, t) ==
    LET S1 == SessionManager_touch(S, sid, t)
        session == SessionManager_get_session(S, sid, t)
    IN IF session.kind # "None"
       THEN [S1 EXCEPT ![sid].context = DictUpdate(@, context_updates)]
       ELSE S1

SessionManager_get_context(S, sid, t) ==
    LET session == SessionManager_get_session(S, sid, t)
    IN IF session.kind # "None"
       THEN DictResult(session.val.context)
       ELSE DictResult(EmptyDict)

SessionManager_delete_session(S, sid) ==
    IF sid \in DOMAIN S THEN DictDel(S, sid) ELSE S

\* faulty variant: the age is counted from created_at
SessionManager_expired_created_at(S, max_age_hours, t) ==
    {sid \in DOMAIN S : t - S[sid].created_at > max_age_hours}

\* age > timedelta(hours=max_age_hours); the clock counts hours
SessionManager_expired(S, max_age_hours, t) ==
    {sid \in DOMAIN S : t - S[sid].last_accessed > max_age_hours}

\* for session_id in expired: self.delete_session(session_id)
RECURSIVE SessionManager_delete_all(_, _)
SessionManager_delete_all(S, expired) ==
    IF expired = {} THEN S
    ELSE LET sid == CHOOSE x \in expired : TRUE
         IN SessionManager_delete_all(SessionManager_delete_session(S, sid), expired \ {sid})

SessionManager_cleanup_expired_sessions(S, max_age_hours, t) ==
    SessionManager_delete_all(S, SessionManager_expired(S, max_age_hours, t))

-----------------------------------------------------------------------------
(* Python str operations used by followup_detector.py *)

UpperLetters == "ABCDEFGHIJKLMNOPQRSTUVWXYZ"
LowerLetters == "abcdefghijklmnopqrstuvwxyz"
Digits == "0123456789"

Ch(s, i) == SubSeq(s, i, i)

CharsOf(s) == {Ch(s, i) : i \in 1..Len(s)}

IsUpper(c) == c \in CharsOf(UpperLetters)
IsLower(c) == c \in CharsOf(LowerLetters)
IsSpace(c) == c \in {" ", "\t", "\n"}
\* \w of the re module, on the characters messages are made of
IsWordChar(c) == IsUpper(c) \/ IsLower(c) \/ c \in CharsOf(Digits) \/ c = "_"

LowerCh(c) ==
    IF IsUpper(c)
    THEN Ch(LowerLetters, CHOOSE k \in 1..26 : Ch(UpperLetters, k) = c)
    ELSE c

\* str.lower()
Lower(s) ==
    LET F[i \in 0..Len(s)] == IF i = 0 THEN "" ELSE F[i - 1] \o LowerCh(Ch(s, i))
    IN F[Len(s)]

\* str.strip()
Strip(s) ==
    LET keep == {i \in 1..Len(s) : ~IsSpace(Ch(s, i))}
    IN IF keep = {} THEN ""
       ELSE SubSeq(s, CHOOSE i \in keep : \A j \in keep : i <= j,
                      CHOOSE i \in keep : \A j \in keep : i >= j)

\* len(str.split()): the number of maximal runs of non-whitespace
WordCount(s) ==
    Cardinality({i \in 1..Len(s) :
        ~IsSpace(Ch(s, i)) /\ (i = 1 \/ IsSpace(Ch(s, i - 1)))})

\* sub in s
Contains(sub, s) ==
    \E i \in 1..(Len(s) - Len(sub) + 1) : SubSeq(s, i, i + Len(sub) - 1) = sub

\* s.startswith(prefix), s.endswith(suffix)
StartsWith(s, prefix) == Len(prefix) <= Len(s) /\ SubSeq(s, 1, Len(prefix)) = prefix
EndsWith(s, suffix) ==
    Len(suffix) <= Len(s) /\ SubSeq(s, Len(s) - Len(suffix) + 1, Len(s)) = suffix

\* faulty variant: `x == s` in place of `x in s`
FirstContained_equal(list, s) ==
    LET hits == {i \in 1..Len(list) : list[i] = s}
    IN IF hits = {} THEN 0 ELSE CHOOSE i \in hits : \A j \in hits : i <= j

\* the index of the first entry of list that occurs in s, 0 when none does:
\* for x in list: if x in s: ...
FirstContained(list, s) ==
    LET hits == {i \in 1..Len(list) : Contains(list[i], s)}
    IN IF hits = {} THEN 0 ELSE CHOOSE i \in hits : \A j \in hits : i <= j

\* faulty variant: `qword in message_lower` in place of message_lower.startswith(qword)
FirstPrefix_anywhere(list, s) ==
    LET hits == {i \in 1..Len(list) : Contains(list[i], s)}
    IN IF hits = {} THEN 0 ELSE CHOOSE i \in hits : \A j \in hits : i <= j

\* the index of the first entry of list that s starts with, 0 when none
FirstPrefix(list, s) ==
    LET hits == {i \in 1..Len(list) : StartsWith(s, list[i])}
    IN IF hits = {} THEN 0 ELSE CHOOSE i \in hits : \A j \in hits : i <= j

\* the last index of the run of lower-case letters / of whitespace that starts
\* at i; i - 1 when the run is empty
LowerRunEnd(s, i) ==
    LET js == {j \in i..Len(s) : \A k \in i..j : IsLower(Ch(s, k))}
    IN IF js = {} THEN i - 1 ELSE CHOOSE j \in js : \A x \in js : x <= j

SpaceRunEnd(s, i) ==
    LET js == {j \in i..Len(s) : \A k \in i..j : IsSpace(Ch(s, k))}
    IN IF js = {} THEN i - 1 ELSE CHOOSE j \in js : \A x \in js : x <= j

\* the end of the match of \b[A-Z][a-z]+\s+[A-Z][a-z]+\b that starts at i,
\* 0 when there is none
ProductMatchEnd(s, i) ==
    LET a == LowerRunEnd(s, i + 1)
        b == SpaceRunEnd(s, a + 1)
        d == LowerRunEnd(s, b + 2)
    IN IF /\ i >= 1 /\ i <= Len(s)
          /\ (i = 1 \/ ~IsWordChar(Ch(s, i - 1)))
          /\ IsUpper(Ch(s, i))
          /\ a >= i + 1
          /\ b >= a + 1
          /\ b + 1 <= Len(s) /\ IsUpper(Ch(s, b + 1))
          /\ d >= b + 2
          /\ (d = Len(s) \/ ~IsWordChar(Ch(s, d + 1)))
       THEN d ELSE 0

\* re.findall(...)[0] when the list is not empty, "" when it is
FirstProduct(s) ==
    LET starts == {i \in 1..Len(s) : ProductMatchEnd(s, i) > 0}
    IN IF starts = {} THEN ""
       ELSE LET i == CHOOSE x \in starts : \A y \in starts : x <= y
            IN SubSeq(s, i, ProductMatchEnd(s, i))

-----------------------------------------------------------------------------
(* followup_detector.py: the phrase tables *)

REFERENCE_PRONOUNS_EN == <<"this", "it", "that", "these", "those">>
REFERENCE_PRONOUNS_HI ==
    <<"yeh", "ye", "woh", "wo", "isko", "usko", "iski", "uski", "aapko">>
REFERENCE_PRONOUNS_GU == <<"aa", "e", "te", "shu", "shu che">>
REFERENCE_PRONOUNS_HINGLISH == <<"ye", "this", "wo", "that", "isko", "usko">>

ALL_REFERENCE_PRONOUNS ==
    REFERENCE_PRONOUNS_EN \o REFERENCE_PRONOUNS_HI \o
    REFERENCE_PRONOUNS_GU \o REFERENCE_PRONOUNS_HINGLISH

CONSUMPTION_QUERIES_EN ==
    <<"can i eat", "can we eat", "safe to eat", "okay to eat",
      "daily", "every day", "everyday",
      "safe for kids", "safe for children", "for kids", "for children",
      "for babies", "for toddlers",
      "diabetes", "diabetic", "high bp", "blood pressure", "heart",
      "pregnant", "pregnancy", "weight loss", "lose weight",
      "healthy", "good for me", "bad for me">>

CONSUMPTION_QUERIES_HI ==
    <<"kya kha sakte", "kya le sakte", "safe hai", "theek hai",
      "roz", "daily", "har din", "bachchon ke liye", "bacchon ke liye",
      "diabetes", "bp", "pregnancy", "sehat", "health">>

CONSUMPTION_QUERIES_GU ==
    <<"khaay shakay", "khavay", "safe che", "theek che",
      "daily", "har roj", "baalo mate", "bachcho mate",
      "diabetes", "bp", "pregnancy", "swasth", "health">>

CONSUMPTION_QUERIES_HINGLISH ==
    <<"kha sakte hain", "le sakte", "safe hai kya",
      "roz kha sakte", "daily okay", "kids ke liye",
      "health ke liye", "diabetes mein">>

ALL_CONSUMPTION_QUERIES ==
    CONSUMPTION_QUERIES_EN \o CONSUMPTION_QUERIES_HI \o
    CONSUMPTION_QUERIES_GU \o CONSUMPTION_QUERIES_HINGLISH

AMOUNT_QUERIES ==
    <<"how much", "how many", "portion", "serving", "quantity",
      "kitna", "kitni", "keto", "ket lu", "amount">>

ALTERNATIVE_QUERIES ==
    <<"instead", "alternative", "substitute", "replace", "better option",
      "uske jagah", "instead", "alternative", "badle mein">>

FOLLOWUP_QUESTION_WORDS ==
    <<"what", "why", "how", "when", "should", "can",
      "kya", "kyun", "kaise", "kab", "chahiye",
      "shu", "kevi rite", "kyare">>

ASKING_ABOUT_WORDS == <<"about", "ke baare mein", "vishay", "regarding">>

-----------------------------------------------------------------------------
(* followup_detector.py: the two functions.  A confidence is kept in          *)
(* hundredths (0.95 is 95); a reason is the pair (rule, detail) the reason    *)
(* string is formatted from.                                                  *)

\* use_context = is_followup and confidence >= 0.6
CONTEXT_THRESHOLD == 60

NotClassified == <<FALSE, 0, <<"not called", "">>>>

\* faulty variant: the consumption-with-pronoun rule is tried before the
\* short-message pronoun rule
followup_rules_consumption_first(msg, new_image) ==
    LET message_lower == Strip(Lower(msg))
        word_count == WordCount(msg)
        \* for pronoun in ALL_REFERENCE_PRONOUNS: if pronoun in message_lower
        pronoun == FirstContained(ALL_REFERENCE_PRONOUNS, message_lower)
        \* for query in ALL_CONSUMPTION_QUERIES: if query in message_lower
        consumption == FirstContained(ALL_CONSUMPTION_QUERIES, message_lower)
        amount == FirstContained(AMOUNT_QUERIES, message_lower)
        alternative == FirstContained(ALTERNATIVE_QUERIES, message_lower)
        qword == FirstPrefix(FOLLOWUP_QUESTION_WORDS, message_lower)
        product == FirstProduct(msg)
        asking_about == FirstContained(ASKING_ABOUT_WORDS, message_lower) > 0
    IN IF consumption > 0 /\ pronoun > 0
       THEN <<TRUE, 98, <<"Consumption query with pronoun",
                          ALL_CONSUMPTION_QUERIES[consumption]>>>>
       ELSE IF word_count <= 10 /\ pronoun > 0
       THEN <<TRUE, 95, <<"Multilingual pronoun", ALL_REFERENCE_PRONOUNS[pronoun]>>>>
       ELSE IF consumption > 0
       THEN <<TRUE, 85, <<"Consumption query", ALL_CONSUMPTION_QUERIES[consumption]>>>>
       ELSE IF amount > 0
       THEN <<TRUE, 80, <<"Amount query", AMOUNT_QUERIES[amount]>>>>
       ELSE IF alternative > 0
       THEN <<TRUE, 90, <<"Alternative query", ALTERNATIVE_QUERIES[alternative]>>>>
       ELSE IF word_count <= 8 /\ EndsWith(Strip(message_lower), "?") /\ qword > 0
       THEN <<TRUE, 75, <<"Short question starting with", FOLLOWUP_QUESTION_WORDS[qword]>>>>
       ELSE IF product # "" /\ ~asking_about
       THEN <<FALSE, 0, <<"Different product mentioned", product>>>>
       ELSE IF word_count <= 12 /\ ~new_image
       THEN <<TRUE, 65, <<"Short message, likely follow-up", "">>>>
       ELSE <<FALSE, 0, <<"Long message without follow-up indicators", "">>>>

\* is_followup_question after its new-image test: the rules on the text
followup_rules(msg, new_image) ==
    LET message_lower == Strip(Lower(msg))
        word_count == WordCount(msg)
        \* for pronoun in ALL_REFERENCE_PRONOUNS: if pronoun in message_lower
        pronoun == FirstContained(ALL_REFERENCE_PRONOUNS, message_lower)
        \* for query in ALL_CONSUMPTION_QUERIES: if query in message_lower
        consumption == FirstContained(ALL_CONSUMPTION_QUERIES, message_lower)
        amount == FirstContained(AMOUNT_QUERIES, message_lower)
        alternative == FirstContained(ALTERNATIVE_QUERIES, message_lower)
        qword == FirstPrefix(FOLLOWUP_QUESTION_WORDS, message_lower)
        product == FirstProduct(msg)
        asking_about == FirstContained(ASKING_ABOUT_WORDS, message_lower) > 0
    IN IF word_count <= 10 /\ pronoun > 0
       THEN <<TRUE, 95, <<"Multilingual pronoun", ALL_REFERENCE_PRONOUNS[pronoun]>>>>
       ELSE IF consumption > 0
       THEN IF pronoun > 0
            THEN <<TRUE, 98, <<"Consumption query with pronoun",
                               ALL_CONSUMPTION_QUERIES[consumption]>>>>
            ELSE <<TRUE, 85, <<"Consumption query", ALL_CONSUMPTION_QUERIES[consumption]>>>>
       ELSE IF amount > 0
       THEN <<TRUE, 80, <<"Amount query", AMOUNT_QUERIES[amount]>>>>
       ELSE IF alternative > 0
       THEN <<TRUE, 90, <<"Alternative query", ALTERNATIVE_QUERIES[alternative]>>>>
       ELSE IF word_count <= 8 /\ EndsWith(Strip(message_lower), "?") /\ qword > 0
       THEN <<TRUE, 75, <<"Short question starting with", FOLLOWUP_QUESTION_WORDS[qword]>>>>
       ELSE IF product # "" /\ ~asking_about
       THEN <<FALSE, 0, <<"Different product mentioned", product>>>>
       ELSE IF word_count <= 12 /\ ~new_image
       THEN <<TRUE, 65, <<"Short message, likely follow-up", "">>>>
       ELSE <<FALSE, 0, <<"Long message without follow-up indicators", "">>>>

\* faulty variant: the new-image test comes after the short-message pronoun rule
is_followup_question_image_late(msg, new_image) ==
    LET r == followup_rules(msg, FALSE)
    IN IF r[3][1] = "Multilingual pronoun" THEN r
       ELSE IF new_image THEN <<FALSE, 0, <<"New image uploaded", "">>>>
       ELSE r

is_followup_question(msg, new_image) ==
    IF new_image
    THEN <<FALSE, 0, <<"New image uploaded", "">>>>
    ELSE followup_rules(msg, new_image)

\* faulty variant: the threshold before it was lowered (confidence >= 0.7)
should_use_food_context_070(msg, food_context, new_image) ==
    IF ~food_context THEN FALSE
    ELSE IF new_image THEN FALSE
    ELSE LET r == is_followup_question(msg, new_image)
         IN r[1] /\ r[2] >= 70

should_use_food_context(msg, food_context, new_image) ==
    IF ~food_context THEN FALSE
    ELSE IF new_image THEN FALSE
    ELSE LET r == is_followup_question(msg, new_image)
         IN r[1] /\ r[2] >= CONTEXT_THRESHOLD

-----------------------------------------------------------------------------
(* Inputs of the AINativeIntentService methods *)

Goals == {"curiosity", "health"}
ConcernLists ==
    {<<>>, <<"sugar">>, <<"sodium", "sugar">>, <<"sugar", "oil", "salt", "sodium">>}
\* the three levels, a value outside them, and "missing" for a dict without the key
Levels == {"uncertain", "somewhat_sure", "fairly_confident", "certain", "missing"}
Hedges == {"", "maybe", "missing"}

SoftContext(goal, concerns, level, hedge) ==
    LET d == [likely_goal |-> goal, soft_concerns |-> concerns,
              confidence_level |-> level, hedge_language |-> hedge]
        keys == {"likely_goal", "soft_concerns"}
                    \cup (IF level = "missing" THEN {} ELSE {"confidence_level"})
                    \cup (IF hedge = "missing" THEN {} ELSE {"hedge_language"})
    IN [k \in keys |-> d[k]]

SoftContexts ==
    {<<>>} \cup {SoftContext(g, l, c, h) :
                    g \in Goals, l \in ConcernLists, c \in Levels, h \in Hedges}

InferMessages == {"is it safe for kids?", "yeh kya hai", "Dairy Milk"}

\* what the awaited generate_text does: it raises LLMServiceError, or returns a
\* text: with or without a code fence, its body a JSON object, another JSON
\* value, or not JSON
NoOutcome == [kind |-> "none", fence |-> "none", body |-> [kind |-> "none", val |-> <<>>]]
Fences == {"none", "json", "other"}
Bodies ==
    {[kind |-> "object", val |-> c] : c \in SoftContexts}
        \cup {[kind |-> k, val |-> <<>>] : k \in {"array", "scalar", "null", "not JSON"}}
LLMOutcomes ==
    {[kind |-> "raises", fence |-> "none", body |-> [kind |-> "none", val |-> <<>>]]}
        \cup {[kind |-> "returns", fence |-> f, body |-> b] : f \in Fences, b \in Bodies}

NotInferred == [kind |-> "none", val |-> <<>>]

-----------------------------------------------------------------------------
(* intent_service.py: AINativeIntentService.  A soft context is a dict; the   *)
(* text the reasoning client returns is kept as its fence and what           *)
(* json.loads makes of its body.                                             *)

\* d.get(key, default)
DictGet(d, key, default) == IF key \in DOMAIN d THEN d[key] ELSE default

\* set(list)
ToSet(list) == {list[i] : i \in DOMAIN list}

\* list(a_set): the elements once each, in the iteration order of the set,
\* which for a set of str changes from process to process
ListOfSet(a_set) ==
    {l \in [1..Cardinality(a_set) -> a_set] : ToSet(l) = a_set}

\* list[:n]
Take(list, n) == SubSeq(list, 1, IF Len(list) < n THEN Len(list) ELSE n)

\* bool(value) of a str
Truthy(value) == value # ""

\* re.search(r'[\u0900-\u097F]', message): messages are ASCII here
HasDevanagari(msg) == FALSE

hinglish_words ==
    <<"hai", "hain", "kya", "kaisa", "kaise", "acha", "achha", "theek", "thik",
      "nahi", "nahin", "haan", "han", "koi", "kuch", "sab", "sabse", "mein",
      "main", "aur", "ya", "phir", "wala", "wali", "wale", "ke", "ki", "ka",
      "se", "mein", "par", "pe", "ko", "ne", "toh", "to", "bhi", "hi">>

_detect_language(msg) ==
    LET message_lower == Lower(msg)
        hinglish_count ==
            Cardinality({i \in 1..Len(hinglish_words) :
                            Contains(hinglish_words[i], message_lower)})
    IN IF HasDevanagari(msg) THEN "hi"
       ELSE IF hinglish_count >= 2 THEN "hinglish"
       ELSE "en"

_default_uncertain_context ==
    [likely_goal |-> "curiosity",
     possible_context |-> NoneResult,
     soft_concerns |-> <<>>,
     confidence_level |-> "uncertain",
     hedge_language |-> "I'm not sure what you're most interested in here"]

\* how a call ends
Returned(value) == [kind |-> "returned", val |-> value]
Raised(exception) == [kind |-> "raised", val |-> exception]

\* response_clean as json.loads sees it: a ```json fence is taken off, any
\* other fence stays and makes the text unparsable
json_loads(response) ==
    IF response.fence \notin {"none", "json"} \/ response.body.kind = "not JSON"
    THEN [kind |-> "JSONDecodeError", val |-> EmptyDict]
    ELSE response.body

\* faulty variant: no outer `except Exception`, only the JSON one
soft_infer_context_json_only(msg, outcome) ==
    LET detected_language == _detect_language(msg)
        default_context ==
            DictUpdate(_default_uncertain_context,
                       ("detected_language" :> detected_language))
    IN IF outcome.kind = "raises" THEN Raised("LLMServiceError")
       ELSE LET context_data == json_loads(outcome)
            IN IF context_data.kind = "JSONDecodeError" THEN Returned(default_context)
               ELSE IF context_data.kind # "object" THEN Raised("TypeError")
               ELSE Returned(DictUpdate(context_data.val,
                                        ("detected_language" :> detected_language)))

\* soft_infer_context(session_id, message, recent_history, existing_context);
\* outcome is what the awaited self.client.generate_text did
soft_infer_context(msg, outcome) ==
    LET detected_language == _detect_language(msg)
        default_context ==
            DictUpdate(_default_uncertain_context,
                       ("detected_language" :> detected_language))
    IN IF outcome.kind = "raises"
       THEN \* except Exception
            Returned(default_context)
       ELSE LET context_data == json_loads(outcome)
            IN IF context_data.kind = "JSONDecodeError"
               THEN \* except (json.JSONDecodeError, ValueError)
                    Returned(default_context)
               ELSE IF context_data.kind # "object"
               THEN \* context_data['detected_language'] = ... raises TypeError,
                    \* which the outer except Exception catches
                    Returned(default_context)
               ELSE Returned(DictUpdate(context_data.val,
                                        ("detected_language" :> detected_language)))

\* faulty variant: the highest level is missing from the order
confidence_order_two_levels ==
    ("uncertain" :> 0) @@ ("somewhat_sure" :> 1)

confidence_order ==
    ("uncertain" :> 0) @@ ("somewhat_sure" :> 1) @@ ("fairly_confident" :> 2)

\* faulty variant: the comparison of the two confidences is turned round
merge_context_gently_lt(old_context, new_context, listed) ==
    LET old_confidence == DictGet(old_context, "confidence_level", "uncertain")
        new_confidence == DictGet(new_context, "confidence_level", "uncertain")
    IN IF DictGet(confidence_order, new_confidence, 0)
            < DictGet(confidence_order, old_confidence, 0)
       THEN DictUpdate(new_context,
                ("hedge_language" :>
                    IF Truthy(DictGet(new_context, "hedge_language", ""))
                    THEN new_context["hedge_language"]
                    ELSE "I think this might be about..."))
       ELSE DictUpdate(old_context, ("soft_concerns" :> Take(listed, 3)))

\* merge_context_gently(old_context, new_context); listed is
\* list(old_concerns.union(new_concerns)) as this process iterates the set;
\* a missing hedge_language reads as None, which is false like ""
merge_context_gently(old_context, new_context, listed) ==
    LET old_confidence == DictGet(old_context, "confidence_level", "uncertain")
        new_confidence == DictGet(new_context, "confidence_level", "uncertain")
    IN IF DictGet(confidence_order, new_confidence, 0)
            > DictGet(confidence_order, old_confidence, 0)
       THEN DictUpdate(new_context,
                ("hedge_language" :>
                    IF Truthy(DictGet(new_context, "hedge_language", ""))
                    THEN new_context["hedge_language"]
                    ELSE "I think this might be about..."))
       ELSE DictUpdate(old_context, ("soft_concerns" :> Take(listed, 3)))

\* faulty variant: only the new concerns are listed
ConcernListings_new_only(old_context, new_context) ==
    ListOfSet(ToSet(DictGet(new_context, "soft_concerns", <<>>)))

\* the lists list(old_concerns.union(new_concerns)) can be
ConcernListings(old_context, new_context) ==
    ListOfSet(ToSet(DictGet(old_context, "soft_concerns", <<>>))
                \cup ToSet(DictGet(new_context, "soft_concerns", <<>>)))

-----------------------------------------------------------------------------
(* The store object's state machine *)

Call(op, sid, known, arg, result) ==
    [op |-> op, sid |-> sid, known |-> known, arg |-> arg, result |-> result]

NoCall == Call("init", "", FALSE, <<>>, NoneResult)

\* uuid4: an id no call has used before
FreshIds == SessionIds \ seen

\* the messages of a session as a caller reads them
History(S, sid) ==
    IF cls = "InMemorySessionStore"
    THEN InMemorySessionStore_get_history(S, sid).val
    ELSE IF sid \in DOMAIN S THEN S[sid].conversation_history ELSE <<>>

Context(S, sid) ==
    IF sid \in DOMAIN S THEN S[sid].context ELSE EmptyDict

InitStore ==
    /\ sessions = <<>>
    /\ seen = {}
    /\ now = 0
    /\ lastCall = NoCall
    /\ calls = [s \in SessionIds |-> <<>>]

\* no detector call is in progress
InitDetectorIdle ==
    /\ message = ""
    /\ has_new_image = FALSE
    /\ has_food_context = FALSE
    /\ detCall = "none"
    /\ classification = NotClassified
    /\ use_context = FALSE

\* the arguments of a detector call, before the call
InitDetectorInputs ==
    /\ message \in Messages
    /\ has_new_image \in BOOLEAN
    /\ has_food_context \in BOOLEAN
    /\ detCall = "none"
    /\ classification = NotClassified
    /\ use_context = FALSE

\* no AINativeIntentService call is made
InitContextIdle ==
    /\ ctxCall = "idle"
    /\ soft_old = EmptyDict
    /\ soft_new = EmptyDict
    /\ soft_merged = EmptyDict
    /\ inferMessage = ""
    /\ llm = NoOutcome
    /\ inferred = NotInferred

\* no request is handled
InitOrchIdle ==
    /\ food_contexts = EmptyDict
    /\ slots = {}
    /\ turns = EmptyDict
    /\ served = 0

\* no rate limiter call was made; the limiter has no Redis connection
NoRateCall ==
    [tool_name |-> "", max_per_minute |-> 0, redis |-> "none", outcome |-> "none"]

InitLimiterIdle ==
    /\ redis_client = "None"
    /\ redis_zsets = EmptyDict
    /\ memory_buckets = EmptyDict
    /\ current_time = 0
    /\ rlCall = NoRateCall

\* no response is streamed
NoGenerator ==
    [pc |-> "none", reasoning_response |-> "", words |-> <<>>, i |-> 0,
     current_chunk |-> ""]

InitStreamIdle ==
    /\ gen = NoGenerator
    /\ emitted = <<>>

Init ==
    /\ cls \in StoreClasses
    /\ InitStore
    /\ InitDetectorIdle
    /\ InitContextIdle
    /\ InitLimiterIdle
    /\ InitStreamIdle
    /\ InitOrchIdle

StoreCreateSession ==
    /\ cls = "InMemorySessionStore"
    /\ \E sid \in FreshIds :
        /\ sessions' = InMemorySessionStore_create_session(sessions, sid, now)
        /\ seen' = seen \cup {sid}
        /\ lastCall' = Call("create_session", sid, FALSE, <<>>, [kind |-> "str", val |-> sid])
    /\ UNCHANGED <<cls, now, calls>>
    /\ UNCHANGED <<detVars, ctxVars, rlVars, streamVars, orchVars>>

StoreCreateSessionIfNotExists ==
    /\ cls = "InMemorySessionStore"
    /\ \E sid \in SessionIds :
        /\ sessions' = InMemorySessionStore_create_session_if_not_exists(sessions, sid, now)
        /\ seen' = seen \cup {sid}
        /\ lastCall' = Call("create_session_if_not_exists", sid, sid \in DOMAIN sessions,
                            <<>>, NoneResult)
    /\ UNCHANGED <<cls, now, calls>>
    /\ UNCHANGED <<detVars, ctxVars, rlVars, streamVars, orchVars>>

StoreGetSession ==
    /\ cls = "InMemorySessionStore"
    /\ \E sid \in SessionIds :
        /\ seen' = seen \cup {sid}
        /\ lastCall' = Call("get_session", sid, sid \in DOMAIN sessions, <<>>,
                            InMemorySessionStore_get_session(sessions, sid))
    /\ UNCHANGED <<cls, sessions, now, calls>>
    /\ UNCHANGED <<detVars, ctxVars, rlVars, streamVars, orchVars>>

StoreAppendMessage ==
    /\ cls = "InMemorySessionStore"
    /\ \E sid \in SessionIds, role \in Roles, content \in Contents :
        /\ Len(calls[sid]) < MaxMsgs
        /\ sessions' = InMemorySessionStore_append_message(sessions, sid, role, content, now)
        /\ seen' = seen \cup {sid}
        /\ calls' = [calls EXCEPT ![sid] = Append(@, <<role, content>>)]
        /\ lastCall' = Call("append_message", sid, sid \in DOMAIN sessions,
                            <<role, content>>, NoneResult)
    /\ UNCHANGED <<cls, now>>
    /\ UNCHANGED <<detVars, ctxVars, rlVars, streamVars, orchVars>>

StoreGetHistory ==
    /\ cls = "InMemorySessionStore"
    /\ \E sid \in SessionIds :
        /\ seen' = seen \cup {sid}
        /\ lastCall' = Call("get_history", sid, sid \in DOMAIN sessions, <<>>,
                            InMemorySessionStore_get_history(sessions, sid))
    /\ UNCHANGED <<cls, sessions, now, calls>>
    /\ UNCHANGED <<detVars, ctxVars, rlVars, streamVars, orchVars>>

StoreSetContext ==
    /\ cls = "InMemorySessionStore"
    /\ \E sid \in SessionIds, context \in Partials :
        /\ sessions' = InMemorySessionStore_set_context(sessions, sid, context, now)
        /\ seen' = seen \cup {sid}
        /\ lastCall' = Call("set_context", sid, sid \in DOMAIN sessions, context, NoneResult)
    /\ UNCHANGED <<cls, now, calls>>
    /\ UNCHANGED <<detVars, ctxVars, rlVars, streamVars, orchVars>>

StoreGetContext ==
    /\ cls = "InMemorySessionStore"
    /\ \E sid \in SessionIds :
        /\ seen' = seen \cup {sid}
        /\ lastCall' = Call("get_context", sid, sid \in DOMAIN sessions, <<>>,
                            InMemorySessionStore_get_context(sessions, sid))
    /\ UNCHANGED <<cls, sessions, now, calls>>
    /\ UNCHANGED <<detVars, ctxVars, rlVars, streamVars, orchVars>>

StoreSetIntent ==
    /\ cls = "InMemorySessionStore"
    /\ \E sid \in SessionIds, intent \in Intents :
        /\ sessions' = InMemorySessionStore_set_intent(sessions, sid, intent, now)
        /\ seen' = seen \cup {sid}
        /\ lastCall' = Call("set_intent", sid, sid \in DOMAIN sessions, intent, NoneResult)
    /\ UNCHANGED <<cls, now, calls>>
    /\ UNCHANGED <<detVars, ctxVars, rlVars, streamVars, orchVars>>

StoreGetIntent ==
    /\ cls = "InMemorySessionStore"
    /\ \E sid \in SessionIds :
        /\ seen' = seen \cup {sid}
        /\ lastCall' = Call("get_intent", sid, sid \in DOMAIN sessions, <<>>,
                            InMemorySessionStore_get_intent(sessions, sid))
    /\ UNCHANGED <<cls, sessions, now, calls>>
    /\ UNCHANGED <<detVars, ctxVars, rlVars, streamVars, orchVars>>

ManagerCreateSession ==
    /\ cls = "SessionManager"
    /\ \E sid \in FreshIds :
        /\ sessions' = SessionManager_create_session(sessions, sid, now)
        /\ seen' = seen \cup {sid}
        /\ lastCall' = Call("create_session", sid, FALSE, <<>>, [kind |-> "str", val |-> sid])
    /\ UNCHANGED <<cls, now, calls>>
    /\ UNCHANGED <<detVars, ctxVars, rlVars, streamVars, orchVars>>

ManagerGetSession ==
    /\ cls = "SessionManager"
    /\ \E sid \in SessionIds :
        /\ sessions' = SessionManager_touch(sessions, sid, now)
        /\ seen' = seen \cup {sid}
        /\ lastCall' = Call("get_session", sid, sid \in DOMAIN sessions, <<>>,
                            SessionManager_get_session(sessions, sid, now))
    /\ UNCHANGED <<cls, now, calls>>
    /\ UNCHANGED <<detVars, ctxVars, rlVars, streamVars, orchVars>>

ManagerAddMessage ==
    /\ cls = "SessionManager"
    /\ \E sid \in SessionIds, role \in Roles, content \in Contents :
        /\ Len(calls[sid]) < MaxMsgs
        /\ sessions' = SessionManager_add_message(sessions, sid, role, content, now)
        /\ seen' = seen \cup {sid}
        /\ calls' = [calls EXCEPT ![sid] = Append(@, <<role, content>>)]
        /\ lastCall' = Call("add_message", sid, sid \in DOMAIN sessions,
                            <<role, content>>, NoneResult)
    /\ UNCHANGED <<cls, now>>
    /\ UNCHANGED <<detVars, ctxVars, rlVars, streamVars, orchVars>>

ManagerGetConversationHistory ==
    /\ cls = "SessionManager"
    /\ \E sid \in SessionIds :
        /\ sessions' = SessionManager_touch(sessions, sid, now)
        /\ seen' = seen \cup {sid}
        /\ lastCall' = Call("get_conversation_history", sid, sid \in DOMAIN sessions, <<>>,
                            SessionManager_get_conversation_history(sessions, sid, now))
    /\ UNCHANGED <<cls, now, calls>>
    /\ UNCHANGED <<detVars, ctxVars, rlVars, streamVars, orchVars>>

ManagerUpdateContext ==
    /\ cls = "SessionManager"
    /\ \E sid \in SessionIds, context_updates \in Partials :
        /\ sessions' = SessionManager_update_context(sessions, sid, context_updates, now)
        /\ seen' = seen \cup {sid}
        /\ lastCall' = Call("update_context", sid, sid \in DOMAIN sessions,
                            context_updates, NoneResult)
    /\ UNCHANGED <<cls, now, calls>>
    /\ UNCHANGED <<detVars, ctxVars, rlVars, streamVars, orchVars>>

ManagerGetContext ==
    /\ cls = "SessionManager"
    /\ \E sid \in SessionIds :
        /\ sessions' = SessionManager_touch(sessions, sid, now)
        /\ seen' = seen \cup {sid}
        /\ lastCall' = Call("get_context", sid, sid \in DOMAIN sessions, <<>>,
                            SessionManager_get_context(sessions, sid, now))
    /\ UNCHANGED <<cls, now, calls>>
    /\ UNCHANGED <<detVars, ctxVars, rlVars, streamVars, orchVars>>

ManagerDeleteSession ==
    /\ cls = "SessionManager"
    /\ \E sid \in SessionIds :
        /\ sessions' = SessionManager_delete_session(sessions, sid)
        /\ seen' = seen \cup {sid}
        /\ lastCall' = Call("delete_session", sid, sid \in DOMAIN sessions, <<>>, NoneResult)
    /\ UNCHANGED <<cls, now, calls>>
    /\ UNCHANGED <<detVars, ctxVars, rlVars, streamVars, orchVars>>

ManagerCleanupExpiredSessions ==
    /\ cls = "SessionManager"
    /\ \E max_age_hours \in MaxAges :
        /\ sessions' = SessionManager_cleanup_expired_sessions(sessions, max_age_hours, now)
        /\ lastCall' = Call("cleanup_expired_sessions", "", FALSE, max_age_hours, NoneResult)
    /\ UNCHANGED <<cls, seen, now, calls>>
    /\ UNCHANGED <<detVars, ctxVars, rlVars, streamVars, orchVars>>

StoreOps ==
    \/ StoreCreateSession
    \/ StoreCreateSessionIfNotExists
    \/ StoreGetSession
    \/ StoreAppendMessage
    \/ StoreGetHistory
    \/ StoreSetContext
    \/ StoreGetContext
    \/ StoreSetIntent
    \/ StoreGetIntent

ManagerOps ==
    \/ ManagerCreateSession
    \/ ManagerGetSession
    \/ ManagerAddMessage
    \/ ManagerGetConversationHistory
    \/ ManagerUpdateContext
    \/ ManagerGetContext
    \/ ManagerDeleteSession
    \/ ManagerCleanupExpiredSessions

Next ==
    \/ StoreOps
    \/ ManagerOps

Spec == Init /\ [][Next]_vars

\* Only session creation and message appends, on any interleaving of session ids
NextAppend ==
    \/ StoreCreateSession
    \/ StoreAppendMessage
    \/ ManagerCreateSession
    \/ ManagerAddMessage

SpecAppend == Init /\ [][NextAppend]_vars

-----------------------------------------------------------------------------
(* Calls of the follow-up detector *)

IsFollowupQuestion ==
    /\ detCall = "none"
    /\ detCall' = "is_followup_question"
    /\ classification' = is_followup_question(message, has_new_image)
    /\ UNCHANGED <<message, has_new_image, has_food_context, use_context>>
    /\ UNCHANGED <<storeVars, ctxVars, rlVars, streamVars, orchVars>>

\* chat.py:101: should_use_food_context(request.message,
\*     stored_food_context is not None, has_new_image)
ShouldUseFoodContext ==
    /\ detCall = "none"
    /\ detCall' = "should_use_food_context"
    /\ classification' = IF has_food_context /\ ~has_new_image
                         THEN is_followup_question(message, has_new_image)
                         ELSE NotClassified
    /\ use_context' = should_use_food_context(message, has_food_context, has_new_image)
    /\ UNCHANGED <<message, has_new_image, has_food_context>>
    /\ UNCHANGED <<storeVars, ctxVars, rlVars, streamVars, orchVars>>

NextDetector ==
    \/ IsFollowupQuestion
    \/ ShouldUseFoodContext

InitDetector ==
    /\ cls = "SessionManager"
    /\ InitStore
    /\ InitDetectorInputs
    /\ InitContextIdle
    /\ InitLimiterIdle
    /\ InitStreamIdle
    /\ InitOrchIdle

SpecDetector == InitDetector /\ [][NextDetector]_vars

-----------------------------------------------------------------------------
(* rate_limit.py: RateLimiter *)

ToolNames == {"openfoodfacts", "usda"}

\* the max_per_minute each caller passes for its tool (a setting, fixed while
\* the process runs)
LimitOf == ("openfoodfacts" :> 2) @@ ("usda" :> 1)

\* what the Redis pipeline does in one call: it is not used (no client), it
\* executes, or it raises, with its commands applied or not
RedisOutcomes(client) ==
    IF client = "None" THEN {"unused"}
    ELSE {"executed", "raised", "raised after applying"}

\* the length of the window in seconds
WINDOW == 60

NewBucket(t) == [count |-> 0, window_start |-> t]

\* faulty variant: the window is reset only after more than 60 seconds
check_rate_limit_late_reset(B, Z, tool_name, max_per_minute, t, redis) ==
    LET window_start == t - WINDOW
        key == "rate_limit:" \o tool_name
        \* zremrangebyscore(key, 0, window_start), zcard(key), zadd(key, ...)
        kept == SelectSeq(DictGet(Z, key, <<>>), LAMBDA score : score > window_start)
        current_count == Len(kept)
        Z1 == IF redis \in {"executed", "raised after applying"}
              THEN DictUpdate(Z, (key :> Append(kept, t))) ELSE Z
        \* the in-memory part
        B1 == IF tool_name \notin DOMAIN B
              THEN DictUpdate(B, (tool_name :> NewBucket(t))) ELSE B
        bucket == IF t - B1[tool_name].window_start > WINDOW
                  THEN NewBucket(t) ELSE B1[tool_name]
    IN IF redis = "executed" /\ current_count >= max_per_minute
       THEN [buckets |-> B, zsets |-> Z1, raised |-> "429 in the Redis part"]
       ELSE IF bucket.count >= max_per_minute
       THEN [buckets |-> [B1 EXCEPT ![tool_name] = bucket], zsets |-> Z1,
             raised |-> "429 in the memory part"]
       ELSE [buckets |-> [B1 EXCEPT ![tool_name] =
                             [bucket EXCEPT !.count = @ + 1]],
             zsets |-> Z1, raised |-> "no"]

\* check_rate_limit(tool_name, max_per_minute) at time t, on the buckets B and
\* the Redis sorted sets Z: the buckets and sets after the call, and whether
\* and where it raised HTTPException(429)
check_rate_limit(B, Z, tool_name, max_per_minute, t, redis) ==
    LET window_start == t - WINDOW
        key == "rate_limit:" \o tool_name
        \* zremrangebyscore(key, 0, window_start), zcard(key), zadd(key, ...)
        kept == SelectSeq(DictGet(Z, key, <<>>), LAMBDA score : score > window_start)
        current_count == Len(kept)
        Z1 == IF redis \in {"executed", "raised after applying"}
              THEN DictUpdate(Z, (key :> Append(kept, t))) ELSE Z
        \* the in-memory part
        B1 == IF tool_name \notin DOMAIN B
              THEN DictUpdate(B, (tool_name :> NewBucket(t))) ELSE B
        bucket == IF t - B1[tool_name].window_start >= WINDOW
                  THEN NewBucket(t) ELSE B1[tool_name]
    IN IF redis = "executed" /\ current_count >= max_per_minute
       THEN [buckets |-> B, zsets |-> Z1, raised |-> "429 in the Redis part"]
       ELSE IF bucket.count >= max_per_minute
       THEN [buckets |-> [B1 EXCEPT ![tool_name] = bucket], zsets |-> Z1,
             raised |-> "429 in the memory part"]
       ELSE [buckets |-> [B1 EXCEPT ![tool_name] =
                             [bucket EXCEPT !.count = @ + 1]],
             zsets |-> Z1, raised |-> "no"]

\* rate_limiter = RateLimiter(): _init_redis connects, or falls back to memory
InitLimiter ==
    /\ cls = "SessionManager"
    /\ InitStore
    /\ InitDetectorIdle
    /\ InitContextIdle
    /\ InitOrchIdle
    /\ InitStreamIdle
    /\ redis_client \in {"None", "Redis"}
    /\ redis_zsets = EmptyDict
    /\ memory_buckets = EmptyDict
    /\ current_time = 0
    /\ rlCall = NoRateCall

\* rate_limiter.check_rate_limit(tool_name, max_per_minute)
CheckRateLimit ==
    \E tool_name \in ToolNames, redis \in RedisOutcomes(redis_client) :
        LET result == check_rate_limit(memory_buckets, redis_zsets, tool_name,
                                       LimitOf[tool_name], current_time, redis)
        IN /\ \A key \in DOMAIN result.zsets : Len(result.zsets[key]) <= MaxEntries
           /\ memory_buckets' = result.buckets
           /\ redis_zsets' = result.zsets
           /\ rlCall' = [tool_name |-> tool_name, max_per_minute |-> LimitOf[tool_name],
                         redis |-> redis,
                         outcome |-> result.raised]
           /\ UNCHANGED <<redis_client, current_time>>
           /\ UNCHANGED <<storeVars, detVars, ctxVars, orchVars, streamVars>>

\* time passes between two calls
ClockAdvance ==
    /\ current_time + ClockStep <= MaxClock
    /\ current_time' = current_time + ClockStep
    /\ UNCHANGED <<redis_client, redis_zsets, memory_buckets, rlCall>>
    /\ UNCHANGED <<storeVars, detVars, ctxVars, orchVars, streamVars>>

NextLimiter ==
    \/ CheckRateLimit
    \/ ClockAdvance

SpecLimiter == InitLimiter /\ [][NextLimiter]_vars

-----------------------------------------------------------------------------
(* SessionManager while time passes *)

\* datetime.now() advances between two calls
Tick ==
    /\ now < MaxTime
    /\ now' = now + 1
    /\ UNCHANGED <<cls, sessions, seen, lastCall, calls>>
    /\ UNCHANGED <<detVars, ctxVars, rlVars, streamVars, orchVars>>

NextExpiry ==
    \/ ManagerCreateSession
    \/ ManagerGetSession
    \/ ManagerGetConversationHistory
    \/ ManagerUpdateContext
    \/ ManagerGetContext
    \/ ManagerCleanupExpiredSessions
    \/ Tick

InitExpiry ==
    /\ cls = "SessionManager"
    /\ InitStore
    /\ InitDetectorIdle
    /\ InitContextIdle
    /\ InitLimiterIdle
    /\ InitStreamIdle
    /\ InitOrchIdle

SpecExpiry == InitExpiry /\ [][NextExpiry]_vars

-----------------------------------------------------------------------------
(* Calls of the AINativeIntentService methods *)

\* the arguments of one merge_context_gently call, before the call
InitMergeInputs ==
    /\ ctxCall = "merge_context_gently pending"
    /\ soft_old = EmptyDict
    /\ soft_merged \in SoftContexts
    /\ soft_new \in SoftContexts
    /\ inferMessage = ""
    /\ llm = NoOutcome
    /\ inferred = NotInferred

\* the arguments of one soft_infer_context call and what the client will do
InitInferInputs ==
    /\ ctxCall = "soft_infer_context pending"
    /\ soft_old = EmptyDict
    /\ soft_merged = EmptyDict
    /\ soft_new = EmptyDict
    /\ inferMessage \in InferMessages
    /\ llm \in LLMOutcomes
    /\ inferred = NotInferred

\* merged = ai_native_intent.merge_context_gently(stored, new)
MergeContextGently ==
    /\ ctxCall = "merge_context_gently pending"
    /\ \E listed \in ConcernListings(soft_merged, soft_new) :
          soft_merged' = merge_context_gently(soft_merged, soft_new, listed)
    /\ soft_old' = soft_merged
    /\ ctxCall' = "merge_context_gently"
    /\ UNCHANGED <<soft_new, inferMessage, llm, inferred>>
    /\ UNCHANGED <<storeVars, detVars, orchVars, rlVars, streamVars>>

\* await ai_native_intent.soft_infer_context(session_id, message, ...)
SoftInferContext ==
    /\ ctxCall = "soft_infer_context pending"
    /\ inferred' = soft_infer_context(inferMessage, llm)
    /\ ctxCall' = "soft_infer_context"
    /\ UNCHANGED <<soft_old, soft_new, soft_merged, inferMessage, llm>>
    /\ UNCHANGED <<storeVars, detVars, orchVars, rlVars, streamVars>>

NextContext ==
    \/ MergeContextGently
    \/ SoftInferContext

InitContext ==
    /\ cls = "SessionManager"
    /\ InitStore
    /\ InitDetectorIdle
    /\ InitOrchIdle
    /\ InitLimiterIdle
    /\ InitStreamIdle
    /\ (InitMergeInputs \/ InitInferInputs)

SpecContext == InitContext /\ [][NextContext]_vars

-----------------------------------------------------------------------------
(* The request handlers: chat.py chat_stream_ai_native, analyze.py            *)
(* analyze_text_ai_native and analyze_image_ai_native.  A handler runs from   *)
(* one await of an external call to the next; turns[r].pc names the await it *)
(* is suspended in.  The lists and dicts a handler reads for its prompts     *)
(* (history, existing_context, conversation_summary) decide no state and     *)
(* are left out.  Sessions are not deleted while requests are handled.       *)

\* request bodies: session_id "" stands for an absent one, image says whether
\* the body carries an "image" entry
TurnMessages == {MsgSafeForKids, "Dairy Milk"}
RequestSessionIds == {""} \cup SessionIds
ChatBodies ==
    {[message |-> m, session_id |-> sid, image |-> i] :
        m \in TurnMessages, sid \in RequestSessionIds, i \in BOOLEAN}
TextBodies ==
    {[text |-> m, session_id |-> sid] : m \in TurnMessages, sid \in RequestSessionIds}

\* ChatRequest(**body): the declared fields; an entry of the body that is not
\* a field is dropped; validate_message strips the message
ChatRequest(body) ==
    [message |-> Strip(body.message), session_id |-> body.session_id,
     context |-> NoneResult, language |-> "en"]

\* TextAnalysisRequest(**body)
TextAnalysisRequest(body) ==
    [text |-> Strip(body.text), session_id |-> body.session_id]

\* hasattr(request, name)
HasAttr(request, name) == name \in DOMAIN request

\* what the awaited soft_infer_context's client does in a turn
TurnLLMOutcomes ==
    {[kind |-> "raises", fence |-> "none", body |-> [kind |-> "none", val |-> <<>>]],
     [kind |-> "returns", fence |-> "none",
      body |-> [kind |-> "object",
                val |-> SoftContext("health", <<"sugar">>, "fairly_confident", "maybe")]],
     [kind |-> "returns", fence |-> "json",
      body |-> [kind |-> "object",
                val |-> SoftContext("curiosity", <<>>, "uncertain", "")]]}

\* what analyze_from_text / analyze_from_image returns: the validated answer,
\* or the fallback text of its own except branch
ReasoningTexts == {"answer", "fallback answer"}

\* food contexts an image analysis yields
FoodContexts == {("product_name" :> "Parle-G"), ("product_name" :> "Maggi")}

\* the parameters analyze_from_text declares, and the keyword arguments of
\* its two calls
analyze_from_text_params ==
    {"user_input", "inferred_context", "conversation_history", "language"}
ChatReasoningKwargs ==
    {"user_input", "inferred_context", "conversation_history", "language",
     "food_context", "conversation_summary"}
TextReasoningKwargs ==
    {"user_input", "inferred_context", "conversation_history", "language"}

\* a call with a keyword argument the function does not declare raises TypeError
CallRaisesTypeError(params, kwargs) == ~(kwargs \subseteq params)

error_msg == "I'm having trouble right now. Could you try asking again?"

NoResponse == [kind |-> "none", content |-> ""]
StreamingResponse(content) == [kind |-> "StreamingResponse", content |-> content]
JsonResponse(analysis) == [kind |-> "json", content |-> analysis]
HTTPException(detail) == [kind |-> "HTTPException", content |-> detail]

\* SessionManager food context: get, set, clear
SessionManager_get_food_context(F, sid) ==
    IF sid \in DOMAIN F THEN DictResult(F[sid]) ELSE NoneResult

SessionManager_set_food_context(F, sid, food_context) ==
    (sid :> food_context) @@ F

SessionManager_clear_food_context(F, sid) ==
    IF sid \in DOMAIN F THEN DictDel(F, sid) ELSE F

IdleTurn ==
    [endpoint |-> "none", pc |-> "idle", session_id |-> "", known |-> FALSE,
     message |-> "", image |-> FALSE, has_new_image |-> FALSE,
     stored_food_context |-> NoneResult, use_food_context |-> FALSE,
     food_context |-> NoneResult, inferred_context |-> EmptyDict,
     reasoning |-> "not called", response |-> NoResponse, history |-> <<>>,
     context |-> EmptyDict, new_intent |-> EmptyDict]

\* a task that is free to take a request
Free(r) == turns[r].pc \in {"idle", "done"}

\* session_id = request.session_id or session_manager.create_session()
ResolvedIds(session_id) == IF session_id = "" THEN FreshIds ELSE {session_id}
Resolve(S, session_id, sid, t) ==
    IF session_id = "" THEN SessionManager_create_session(S, sid, t) ELSE S

\* POST /chat/stream, up to the await of soft_infer_context
ChatBegin ==
    /\ served < MaxTurns
    /\ \E r \in slots, body \in ChatBodies :
        LET request == ChatRequest(body)
        IN \E sid \in ResolvedIds(request.session_id) :
            LET S0 == Resolve(sessions, request.session_id, sid, now)
                \* get_conversation_history, get_context
                S1 == SessionManager_touch(SessionManager_touch(S0, sid, now), sid, now)
                S2 == SessionManager_add_message(S1, sid, "user", request.message, now)
                stored == SessionManager_get_food_context(food_contexts, sid)
                new_image == IF HasAttr(request, "image")
                             THEN request["image"] # NoneResult ELSE FALSE
                stored_food_context == IF new_image THEN NoneResult ELSE stored
                use == should_use_food_context(request.message,
                            stored_food_context # NoneResult, new_image)
            IN /\ Free(r)
               /\ sessions' = S2
               /\ seen' = seen \cup {sid}
               /\ food_contexts' =
                    IF new_image
                    THEN SessionManager_clear_food_context(food_contexts, sid)
                    ELSE food_contexts
               /\ turns' = [turns EXCEPT ![r] =
                    [IdleTurn EXCEPT
                        !.endpoint = "chat", !.pc = "soft_infer_context",
                        !.session_id = sid, !.known = sid \in DOMAIN S0,
                        !.message = request.message, !.image = body.image,
                        !.has_new_image = new_image,
                        !.stored_food_context = stored,
                        !.use_food_context = use,
                        !.food_context = IF use THEN stored_food_context ELSE NoneResult,
                        !.history = History(S0, sid),
                        !.context = Context(S0, sid)]]
    /\ served' = served + 1
    /\ UNCHANGED <<cls, now, lastCall, calls, slots>>
    /\ UNCHANGED <<detVars, ctxVars, rlVars, streamVars>>

\* POST /analyze/text, up to the await of soft_infer_context
AnalyzeTextBegin ==
    /\ served < MaxTurns
    /\ \E r \in slots, body \in TextBodies :
        LET request == TextAnalysisRequest(body)
        IN \E sid \in ResolvedIds(request.session_id) :
            LET S0 == Resolve(sessions, request.session_id, sid, now)
                S1 == SessionManager_touch(SessionManager_touch(S0, sid, now), sid, now)
            IN /\ Free(r)
               /\ sessions' = S1
               /\ seen' = seen \cup {sid}
               /\ turns' = [turns EXCEPT ![r] =
                    [IdleTurn EXCEPT
                        !.endpoint = "analyze_text", !.pc = "soft_infer_context",
                        !.session_id = sid, !.known = sid \in DOMAIN S0,
                        !.message = request.text,
                        !.history = History(S0, sid),
                        !.context = Context(S0, sid)]]
    /\ served' = served + 1
    /\ UNCHANGED <<cls, now, lastCall, calls, slots, food_contexts>>
    /\ UNCHANGED <<detVars, ctxVars, rlVars, streamVars>>

\* POST /analyze/image, up to the await of soft_infer_context; validate_image
\* may refuse the file
AnalyzeImageBegin ==
    /\ served < MaxTurns
    /\ \E r \in slots, valid \in BOOLEAN :
        /\ Free(r)
        /\ IF valid
           THEN \E sid \in FreshIds :
                LET S0 == SessionManager_create_session(sessions, sid, now)
                    S1 == SessionManager_touch(S0, sid, now)
                IN /\ sessions' = S1
                   /\ seen' = seen \cup {sid}
                   /\ turns' = [turns EXCEPT ![r] =
                        [IdleTurn EXCEPT
                            !.endpoint = "analyze_image", !.pc = "soft_infer_context",
                            !.session_id = sid, !.known = TRUE, !.image = TRUE,
                            !.message = "Uploaded image of food product for analysis"]]
           ELSE /\ turns' = [turns EXCEPT ![r] =
                        [IdleTurn EXCEPT
                            !.endpoint = "analyze_image", !.pc = "done", !.image = TRUE,
                            !.response = HTTPException("Failed to process image")]]
                /\ UNCHANGED <<sessions, seen>>
    /\ served' = served + 1
    /\ UNCHANGED <<cls, now, lastCall, calls, slots, food_contexts>>
    /\ UNCHANGED <<detVars, ctxVars, rlVars, streamVars>>

\* soft_infer_context returns; the handler goes on to its reasoning call
AfterSoftInferContext ==
    /\ \E r \in slots, outcome \in TurnLLMOutcomes :
        LET turn == turns[r]
            inferred_context == soft_infer_context(turn.message, outcome).val
            kwargs == IF turn.endpoint = "chat"
                      THEN ChatReasoningKwargs ELSE TextReasoningKwargs
        IN /\ turn.pc = "soft_infer_context"
           /\ turns' = [turns EXCEPT ![r] =
                IF turn.endpoint # "analyze_image"
                        /\ CallRaisesTypeError(analyze_from_text_params, kwargs)
                THEN \* except Exception: the error_stream
                     [turn EXCEPT !.inferred_context = inferred_context,
                                  !.reasoning = "raised TypeError",
                                  !.response = StreamingResponse(error_msg),
                                  !.pc = "done"]
                ELSE [turn EXCEPT !.inferred_context = inferred_context,
                                  !.reasoning = "called",
                                  !.pc = "reasoning"]]
    /\ UNCHANGED <<storeVars, detVars, ctxVars, rlVars, streamVars, food_contexts, slots, served>>

\* the lines of a handler after its reasoning call returned text
AfterReasoning ==
    /\ \E r \in slots, reasoning_response \in ReasoningTexts :
        LET turn == turns[r]
            sid == turn.session_id
            S1 == SessionManager_update_context(sessions, sid, turn.inferred_context, now)
            user == CASE turn.endpoint = "analyze_text" -> turn.message
                      [] turn.endpoint = "analyze_image" -> "Shared a photo of food product"
                      [] OTHER -> ""
            \* chat stored the user message before its awaits
            S2 == IF turn.endpoint = "chat" THEN S1
                  ELSE SessionManager_add_message(S1, sid, "user", user, now)
            S3 == SessionManager_add_message(S2, sid, "assistant", reasoning_response, now)
        IN /\ turn.pc = "reasoning"
           /\ sessions' = S3
           /\ IF turn.endpoint = "analyze_image"
              THEN \E extracted \in {NoneResult} \cup {DictResult(f) : f \in FoodContexts} :
                      food_contexts' =
                        IF extracted # NoneResult
                        THEN SessionManager_set_food_context(food_contexts, sid, extracted.val)
                        ELSE food_contexts
              ELSE UNCHANGED food_contexts
           /\ turns' = [turns EXCEPT ![r] =
                [turn EXCEPT !.reasoning = "returned",
                             !.response = IF turn.endpoint = "chat"
                                          THEN StreamingResponse(reasoning_response)
                                          ELSE JsonResponse(reasoning_response),
                             !.pc = "done"]]
    /\ UNCHANGED <<cls, seen, now, lastCall, calls, slots, served>>
    /\ UNCHANGED <<detVars, ctxVars, rlVars, streamVars>>

\* analyze_from_image raises out of its fallback: the handler answers 500
ImageReasoningRaises ==
    /\ \E r \in slots :
        /\ turns[r].pc = "reasoning"
        /\ turns[r].endpoint = "analyze_image"
        /\ turns' = [turns EXCEPT ![r] =
                [@ EXCEPT !.reasoning = "raised",
                          !.response = HTTPException("I couldn't analyze this image right now. Please try uploading a clear photo of the product package."),
                          !.pc = "done"]]
    /\ UNCHANGED <<storeVars, detVars, ctxVars, rlVars, streamVars, food_contexts, slots, served>>

NextTurns ==
    \/ ChatBegin
    \/ AnalyzeTextBegin
    \/ AnalyzeImageBegin
    \/ AfterSoftInferContext
    \/ AfterReasoning
    \/ ImageReasoningRaises

InitTurns ==
    /\ cls = "SessionManager"
    /\ InitStore
    /\ InitDetectorIdle
    /\ InitContextIdle
    /\ InitLimiterIdle
    /\ InitStreamIdle
    /\ food_contexts = EmptyDict
    /\ slots = {"r1"}
    /\ turns = [r \in slots |-> IdleTurn]
    /\ served = 0

SpecTurns == InitTurns /\ [][NextTurns]_vars

-----------------------------------------------------------------------------
(* intent.py: infer_intent.  An IntentProfile is the dict its .dict() gives;  *)
(* an Optional[str] field is <<>> for None and <<value>> otherwise.          *)

IntentConfidence == {"low", "medium", "high"}

IntentProfile(user_goal, allergy_risks, confidence) ==
    [user_goal |-> user_goal, dietary_style |-> <<>>, allergy_risks |-> allergy_risks,
     audience |-> <<>>, top_concerns |-> <<>>, confidence |-> confidence,
     clarifying_question |-> IF confidence = "low" THEN <<"for whom?">> ELSE <<>>]

\* what the awaited intent_service.infer_intent returns
NewIntents ==
    {IntentProfile(g, a, c) :
        g \in {<<>>, <<"weight_loss">>},
        a \in {<<>>, <<"peanuts">>, <<"dairy">>, <<"dairy", "peanuts">>},
        c \in IntentConfidence}

\* set union of two lists, as a list without repeats
ListUnion(old, new) ==
    LET fresh(x) == x \notin ToSet(old)
    IN old \o SelectSeq(new, fresh)

\* intent_service.merge_intent(existing_intent, new_intent)
merge_intent(old, new) ==
    LET overwrite == \/ new.confidence = "high"
                     \/ (new.confidence = "medium" /\ old.confidence = "low")
        confidence == IF "high" \in {old.confidence, new.confidence}
                      THEN "high" ELSE new.confidence
    IN [user_goal |-> IF overwrite THEN new.user_goal ELSE old.user_goal,
        dietary_style |-> IF overwrite THEN new.dietary_style ELSE old.dietary_style,
        allergy_risks |-> ListUnion(old.allergy_risks, new.allergy_risks),
        audience |-> IF new.audience # <<>> THEN new.audience ELSE old.audience,
        top_concerns |-> ListUnion(old.top_concerns, new.top_concerns),
        confidence |-> confidence,
        clarifying_question |-> IF confidence = "low" THEN new.clarifying_question
                                ELSE <<>>]

\* faulty variant: the new intent is stored as inferred, never merged
infer_intent_merged_new_only(existing_context, new_intent) == new_intent

\* infer_intent, "Merge with existing intent if present": merged_intent
infer_intent_merged(existing_context, new_intent) ==
    LET has_intent == existing_context # EmptyDict /\ "intent" \in DOMAIN existing_context
    IN IF has_intent
       THEN merge_intent(existing_context["intent"], new_intent)
       ELSE new_intent

\* POST /intent/infer, up to the await of intent_service.infer_intent
InferIntentBegin ==
    /\ served < MaxTurns
    /\ \E r \in slots, session_id \in RequestSessionIds :
        \E sid \in ResolvedIds(session_id) :
            LET S0 == Resolve(sessions, session_id, sid, now)
                \* get_context, get_conversation_history
                S1 == SessionManager_touch(SessionManager_touch(S0, sid, now), sid, now)
            IN /\ Free(r)
               /\ sessions' = S1
               /\ seen' = seen \cup {sid}
               /\ turns' = [turns EXCEPT ![r] =
                    [IdleTurn EXCEPT
                        !.endpoint = "infer_intent", !.pc = "infer_intent",
                        !.session_id = sid, !.known = sid \in DOMAIN S0,
                        !.message = MsgSafeForKids]]
    /\ served' = served + 1
    /\ UNCHANGED <<cls, now, lastCall, calls, slots, food_contexts>>
    /\ UNCHANGED <<detVars, ctxVars, rlVars, streamVars>>

\* intent_service.infer_intent returns new_intent: merge, store, respond.
\* existing_context is the session's own context dict when get_context found
\* the session, so it shows what other requests stored during the await.
InferIntentMerge ==
    /\ \E r \in slots, new_intent \in NewIntents :
        LET turn == turns[r]
            sid == turn.session_id
            existing_context == IF turn.known THEN Context(sessions, sid) ELSE EmptyDict
            merged_intent == infer_intent_merged(existing_context, new_intent)
        IN /\ turn.pc = "infer_intent"
           /\ sessions' = SessionManager_update_context(sessions, sid,
                                ("intent" :> merged_intent), now)
           /\ turns' = [turns EXCEPT ![r] =
                [turn EXCEPT !.new_intent = new_intent,
                             !.context = existing_context,
                             !.response = JsonResponse("intent"),
                             !.pc = "done"]]
    /\ UNCHANGED <<cls, seen, now, lastCall, calls>>
    /\ UNCHANGED <<detVars, ctxVars, rlVars, streamVars, food_contexts, slots, served>>

\* intent_service.infer_intent raises: the handler answers 500
InferIntentRaises ==
    /\ \E r \in slots :
        /\ turns[r].pc = "infer_intent"
        /\ turns' = [turns EXCEPT ![r] =
                [@ EXCEPT !.response = HTTPException("Failed to infer intent"),
                          !.pc = "done"]]
    /\ UNCHANGED <<storeVars, detVars, ctxVars, rlVars, streamVars, food_contexts, slots, served>>

NextIntent ==
    \/ InferIntentBegin
    \/ InferIntentMerge
    \/ InferIntentRaises

InitIntent ==
    /\ cls = "SessionManager"
    /\ InitStore
    /\ InitDetectorIdle
    /\ InitContextIdle
    /\ InitLimiterIdle
    /\ InitStreamIdle
    /\ food_contexts = EmptyDict
    /\ slots = {"r1", "r2"}
    /\ turns = [r \in slots |-> IdleTurn]
    /\ served = 0

SpecIntent == InitIntent /\ [][NextIntent]_vars

-----------------------------------------------------------------------------
(* chat.py: generate_stream, the generator the StreamingResponse iterates.    *)
(* An event "data: {json}\n\n" is kept as the delta content the JSON holds.   *)

\* the responses that are streamed: 0..MaxWords words joined by single
\* blanks, and some with other whitespace
RECURSIVE JoinWords(_)
JoinWords(ws) ==
    IF Len(ws) = 0 THEN ""
    ELSE IF Len(ws) = 1 THEN ws[1]
    ELSE ws[1] \o " " \o JoinWords(Tail(ws))

StreamTexts ==
    {JoinWords(ws) : ws \in UNION {[1..n -> {"ok", "sugar"}] : n \in 0..MaxWords}}
        \cup {" ", "  sugar \n ok\tok  ok   sugar "}

\* str.split(): the maximal runs of non-whitespace, in order
Split(s) ==
    LET starts == {i \in 1..Len(s) :
                      ~IsSpace(Ch(s, i)) /\ (i = 1 \/ IsSpace(Ch(s, i - 1)))}
        start(k) == CHOOSE i \in starts : Cardinality({j \in starts : j < i}) = k - 1
        end(i) == CHOOSE j \in i..Len(s) :
                      /\ \A k \in i..j : ~IsSpace(Ch(s, k))
                      /\ j = Len(s) \/ IsSpace(Ch(s, j + 1))
    IN [k \in 1..Cardinality(starts) |-> SubSeq(s, start(k), end(start(k)))]

DataEvent(current_chunk) == [kind |-> "data", content |-> current_chunk]
DoneEvent == [kind |-> "data", content |-> "[DONE]"]

\* faulty variant: the words after the last full group are never sent
RECURSIVE generate_stream_loop_full_groups(_, _, _)
generate_stream_loop_full_groups(words, i, current_chunk) ==
    IF i >= Len(words)
    THEN [yield |-> DoneEvent, i |-> i, current_chunk |-> current_chunk]
    ELSE LET chunk == current_chunk \o words[i + 1] \o " "
         IN IF (i + 1) % 4 = 0
            THEN [yield |-> DataEvent(chunk), i |-> i + 1, current_chunk |-> ""]
            ELSE generate_stream_loop_full_groups(words, i + 1, chunk)

\* the for loop of generate_stream from word index i (0-based) up to its next
\* yield: the event yielded and the locals the generator is suspended with
RECURSIVE generate_stream_loop(_, _, _)
generate_stream_loop(words, i, current_chunk) ==
    IF i >= Len(words)
    THEN [yield |-> DoneEvent, i |-> i, current_chunk |-> current_chunk]
    ELSE LET chunk == current_chunk \o words[i + 1] \o " "
         IN IF (i + 1) % 4 = 0 \/ i = Len(words) - 1
            THEN [yield |-> DataEvent(chunk), i |-> i + 1, current_chunk |-> ""]
            ELSE generate_stream_loop(words, i + 1, chunk)

\* StreamingResponse(generate_stream(), ...) for a reasoning_response
InitStream ==
    /\ cls = "SessionManager"
    /\ InitStore
    /\ InitDetectorIdle
    /\ InitContextIdle
    /\ InitOrchIdle
    /\ InitLimiterIdle
    /\ \E reasoning_response \in StreamTexts :
          gen = [NoGenerator EXCEPT !.pc = "created",
                                    !.reasoning_response = reasoning_response]
    /\ emitted = <<>>

\* the server asks the generator for its next event
GenerateStreamNext ==
    /\ gen.pc \in {"created", "suspended", "yielded [DONE]"}
    /\ IF gen.pc = "yielded [DONE]"
       THEN /\ gen' = [gen EXCEPT !.pc = "exhausted"]
            /\ UNCHANGED emitted
       ELSE LET words == IF gen.pc = "created"
                         THEN Split(gen.reasoning_response) ELSE gen.words
                next == generate_stream_loop(words, gen.i, gen.current_chunk)
            IN /\ emitted' = Append(emitted, next.yield)
               /\ gen' = [gen EXCEPT
                            !.pc = IF next.yield = DoneEvent
                                   THEN "yielded [DONE]" ELSE "suspended",
                            !.words = words, !.i = next.i,
                            !.current_chunk = next.current_chunk]
    /\ UNCHANGED <<storeVars, detVars, ctxVars, orchVars, rlVars>>

\* the client disconnects: the server closes the generator where it is
StreamDisconnect ==
    /\ gen.pc \in {"created", "suspended", "yielded [DONE]"}
    /\ gen' = [gen EXCEPT !.pc = "closed"]
    /\ UNCHANGED emitted
    /\ UNCHANGED <<storeVars, detVars, ctxVars, orchVars, rlVars>>

NextStream ==
    \/ GenerateStreamNext
    \/ StreamDisconnect

SpecStream == InitStream /\ [][NextStream]_vars

-----------------------------------------------------------------------------
(* Two requests in flight: the handlers that share a session id in their     *)
(* request, run by two tasks of the event loop                               *)

NextConcurrent ==
    \/ ChatBegin
    \/ AnalyzeTextBegin
    \/ AfterSoftInferContext
    \/ AfterReasoning
    \/ InferIntentBegin
    \/ InferIntentMerge
    \/ InferIntentRaises

SpecConcurrent == InitIntent /\ [][NextConcurrent]_vars

-----------------------------------------------------------------------------
(* Properties of the session stores *)

WriteOps == {"append_message", "add_message", "set_context", "update_context", "set_intent"}
AppendOps == {"append_message", "add_message"}
ContextOps == {"set_context", "update_context"}
ReadOps == {"get_session", "get_history", "get_conversation_history",
            "get_context", "get_intent"}
RemoveOps == {"delete_session", "cleanup_expired_sessions"}

\* (role, content) of every entry of a message list, in order
RoleContent(msgs) == [i \in 1..Len(msgs) |-> <<msgs[i].role, msgs[i].content>>]

\* C1: after N append calls on a session id, known before or not, the session's
\* messages are exactly those N entries in call order (SpecAppend: only creates
\* and appends happen, interleaved over the session ids).
C1_AppendOnly ==
    \A sid \in SessionIds : RoleContent(History(sessions, sid)) = calls[sid]

\* C1, InMemorySessionStore alone: holds
C1_AppendOnly_InMemorySessionStore ==
    cls = "InMemorySessionStore" => C1_AppendOnly

\* C2 as stated: no operation, delete and cleanup included, loses an entry:
\* what a session's messages were is a prefix of what they are.
C2_NeverLosesEntries ==
    [][\A sid \in SessionIds :
          IsPrefix(History(sessions, sid), History(sessions', sid))]_vars

\* C2 amended: every operation other than delete_session and
\* cleanup_expired_sessions keeps each session's messages as a prefix of the
\* new ones, and a session that survives any operation keeps them so.
C2_SurvivorsKeepEntries ==
    [][/\ \A sid \in (DOMAIN sessions) \cap (DOMAIN sessions') :
             IsPrefix(History(sessions, sid), History(sessions', sid))
       /\ lastCall'.op \notin RemoveOps =>
             \A sid \in SessionIds :
                 IsPrefix(History(sessions, sid), History(sessions', sid))]_vars

C2_Witness ==
    /\ lastCall.op \in AppendOps
    /\ lastCall.known
    /\ Len(History(sessions, lastCall.sid)) >= 2
    /\ History(sessions, lastCall.sid)[1].role # History(sessions, lastCall.sid)[2].role

\* C3: a write with an unknown session id creates the session and applies the
\* write: the message, context or intent written is readable afterwards.
C3_WriteAutoCreates ==
    (lastCall.op \in WriteOps /\ ~lastCall.known) =>
        /\ lastCall.sid \in DOMAIN sessions
        /\ lastCall.op \in AppendOps =>
              RoleContent(History(sessions, lastCall.sid)) = <<lastCall.arg>>
        /\ lastCall.op \in ContextOps =>
              Context(sessions, lastCall.sid) = lastCall.arg
        /\ lastCall.op = "set_intent" =>
              InMemorySessionStore_get_intent(sessions, lastCall.sid).val = lastCall.arg

\* C3, InMemorySessionStore alone: holds
C3_WriteAutoCreates_InMemorySessionStore ==
    cls = "InMemorySessionStore" => C3_WriteAutoCreates

ReadDefault(op) ==
    CASE op = "get_session" -> NoneResult
      [] op \in {"get_history", "get_conversation_history"} -> ListResult(<<>>)
      [] op \in {"get_context", "get_intent"} -> DictResult(EmptyDict)

\* C4: a read with an unknown session id returns the empty default (None, [],
\* {}) and changes neither the set of sessions nor any session.
C4_ReadUnknownDefault ==
    /\ []((lastCall.op \in ReadOps /\ ~lastCall.known) =>
              lastCall.result = ReadDefault(lastCall.op))
    /\ [][(lastCall'.op \in ReadOps /\ ~lastCall'.known) => sessions' = sessions]_vars

C4_Witness ==
    /\ lastCall.op \in ReadOps
    /\ ~lastCall.known
    /\ \E sid \in DOMAIN sessions : History(sessions, sid) # <<>>

\* C5: set_context / update_context is a shallow merge: afterwards the context
\* has partial's value at partial's keys and the old value at every other old
\* key, no key is lost, and messages and intent are as before.
C5_ShallowMerge ==
    [][lastCall'.op \in ContextOps =>
        LET sid == lastCall'.sid
            partial == lastCall'.arg
            old == Context(sessions, sid)
            new == Context(sessions', sid)
        IN /\ DOMAIN new = (DOMAIN old) \cup (DOMAIN partial)
           /\ \A k \in DOMAIN partial : new[k] = partial[k]
           /\ \A k \in (DOMAIN old) \ (DOMAIN partial) : new[k] = old[k]
           /\ History(sessions', sid) = History(sessions, sid)
           /\ (cls = "InMemorySessionStore" =>
                 InMemorySessionStore_get_intent(sessions', sid) =
                 InMemorySessionStore_get_intent(sessions, sid))]_vars

\* C5 on sessions the store knows: holds for both classes
C5_ShallowMerge_Known ==
    [][(lastCall'.op \in ContextOps /\ lastCall'.known) =>
        LET sid == lastCall'.sid
            partial == lastCall'.arg
            old == Context(sessions, sid)
            new == Context(sessions', sid)
        IN /\ DOMAIN new = (DOMAIN old) \cup (DOMAIN partial)
           /\ \A k \in DOMAIN partial : new[k] = partial[k]
           /\ \A k \in (DOMAIN old) \ (DOMAIN partial) : new[k] = old[k]
           /\ History(sessions', sid) = History(sessions, sid)]_vars

-----------------------------------------------------------------------------
(* Properties of the follow-up detector *)

IsFollowup(r) == r[1]
Confidence(r) == r[2]
Rule(r) == r[3][1]

HasAny(list, s) == \E i \in 1..Len(list) : Contains(list[i], s)

\* The rule table of the detector: (condition, is_followup, confidence), in
\* rule order 1..9; the last row is rule 9's "otherwise".
RuleTable(msg, new_image) ==
    LET low == Strip(Lower(msg))
        words == WordCount(msg)
        pronoun == HasAny(ALL_REFERENCE_PRONOUNS, low)
        consumption == HasAny(ALL_CONSUMPTION_QUERIES, low)
    IN << <<new_image, FALSE, 0>>,
          <<words <= 10 /\ pronoun, TRUE, 95>>,
          <<consumption /\ pronoun, TRUE, 98>>,
          <<consumption, TRUE, 85>>,
          <<HasAny(AMOUNT_QUERIES, low), TRUE, 80>>,
          <<HasAny(ALTERNATIVE_QUERIES, low), TRUE, 90>>,
          <<words <= 8 /\ EndsWith(low, "?")
                /\ \E i \in 1..Len(FOLLOWUP_QUESTION_WORDS) :
                      StartsWith(low, FOLLOWUP_QUESTION_WORDS[i]), TRUE, 75>>,
          <<(\E i \in 1..Len(msg) : ProductMatchEnd(msg, i) > 0)
                /\ ~HasAny(ASKING_ABOUT_WORDS, low), FALSE, 0>>,
          <<words <= 12, TRUE, 65>>,
          <<TRUE, FALSE, 0>> >>

FirstMatchingRule(msg, new_image) ==
    LET table == RuleTable(msg, new_image)
        first == CHOOSE i \in 1..Len(table) :
                    table[i][1] /\ \A j \in 1..(i - 1) : ~table[j][1]
    IN <<table[first][2], table[first][3]>>

\* C6: with a new image, is_followup_question answers (False, 0.0) for every
\* message, whatever pronouns or phrases it holds.
C6_NewImageReset ==
    (detCall = "is_followup_question" /\ has_new_image) =>
        (~IsFollowup(classification) /\ Confidence(classification) = 0)

C6_Witness ==
    /\ detCall = "is_followup_question"
    /\ has_new_image
    /\ message = MsgEatThisDaily
    /\ ~IsFollowup(classification)

\* C7: should_use_food_context is True exactly when there is food context,
\* there is no new image, and is_followup_question's confidence is >= 0.6.
C7_ShouldUseContextIff ==
    detCall = "should_use_food_context" =>
        (use_context <=>
            (/\ has_food_context
             /\ ~has_new_image
             /\ Confidence(is_followup_question(message, has_new_image))
                    >= CONTEXT_THRESHOLD))

C7_Witness ==
    /\ detCall = "should_use_food_context"
    /\ has_food_context
    /\ ~has_new_image
    /\ use_context
    /\ Confidence(classification) = 65

C9_VadapavConsumptionAlone ==
    /\ (detCall = "is_followup_question" /\ message = MsgVadapav /\ ~has_new_image) =>
          /\ IsFollowup(classification)
          /\ Confidence(classification) = 85
          /\ Rule(classification) = "Consumption query"
    /\ (detCall = "should_use_food_context" /\ message = MsgVadapav
            /\ ~has_food_context /\ ~has_new_image) =>
          ~use_context

\* C10 as stated: with food context and no new image, MsgSafeForKids makes
\* should_use_food_context return True, classified by the
\* consumption-phrase-with-pronoun rule at confidence 0.98.
C10_SafeForKids098 ==
    (detCall = "should_use_food_context" /\ message = MsgSafeForKids
        /\ has_food_context /\ ~has_new_image) =>
        /\ use_context
        /\ Confidence(classification) = 98
        /\ Rule(classification) = "Consumption query with pronoun"

\* C10 amended: should_use_food_context returns True, and the classification
\* behind it is the short-message pronoun rule (rule 2, pronoun "it") at
\* confidence 0.95.
C10_SafeForKids095 ==
    (detCall = "should_use_food_context" /\ message = MsgSafeForKids
        /\ has_food_context /\ ~has_new_image) =>
        /\ use_context
        /\ classification = <<TRUE, 95, <<"Multilingual pronoun", "it">>>>

C10_Witness ==
    /\ detCall = "should_use_food_context"
    /\ message = MsgSafeForKids
    /\ has_food_context
    /\ ~has_new_image
    /\ use_context

\* C11: without a new image, MsgEatThisDaily is classified a follow-up with
\* confidence >= 0.95, and the rule that decides it is none of the weaker
\* ones (consumption phrase alone, amount, short question, default).
WeakerRules ==
    {"Consumption query", "Amount query", "Short question starting with",
     "Short message, likely follow-up"}

C11_EatThisDailyStrongRule ==
    (detCall = "is_followup_question" /\ message = MsgEatThisDaily /\ ~has_new_image) =>
        /\ IsFollowup(classification)
        /\ Confidence(classification) >= 95
        /\ Rule(classification) \notin WeakerRules

C11_Witness ==
    /\ detCall = "is_followup_question"
    /\ message = MsgEatThisDaily
    /\ ~has_new_image
    /\ Confidence(classification) = 95

-----------------------------------------------------------------------------
(* Properties of the soft context *)

\* the place of a context's confidence_level in the order
\* uncertain < somewhat_sure < fairly_confident; a missing level and a value
\* outside the three count as uncertain, as the merge reads them
LevelRank(context) ==
    LET level == IF "confidence_level" \in DOMAIN context
                 THEN context["confidence_level"] ELSE "uncertain"
    IN CASE level = "somewhat_sure" -> 1
         [] level = "fairly_confident" -> 2
         [] OTHER -> 0

\* C13: the confidence_level of merge(old, new) is never below that of old.
C13_MergeNeverDowngrades ==
    ctxCall = "merge_context_gently" => LevelRank(soft_merged) >= LevelRank(soft_old)

\* an upgrading merge of an old context that has a known level
C13_Witness ==
    /\ ctxCall = "merge_context_gently"
    /\ "confidence_level" \in DOMAIN soft_old
    /\ soft_old["confidence_level"] = "somewhat_sure"
    /\ LevelRank(soft_new) = 2
    /\ LevelRank(soft_merged) = 2

\* C14: the soft_concerns of a merged context has at most 3 entries.
C14_ConcernsAtMostThree ==
    (ctxCall = "merge_context_gently" /\ "soft_concerns" \in DOMAIN soft_merged) =>
        Len(soft_merged["soft_concerns"]) <= 3

\* what the keep-old branch alone guarantees
C14_KeptContextAtMostThree ==
    (ctxCall = "merge_context_gently" /\ LevelRank(soft_new) <= LevelRank(soft_old)) =>
        Len(soft_merged["soft_concerns"]) <= 3

\* C16: soft_infer_context returns a dict whatever the client does, and never
\* raises; when the client raises, or its text is not JSON or not a JSON
\* object, the dict is the default one: curiosity, no concerns, uncertain,
\* and a non-empty hedge_language.
LLMFailed ==
    \/ llm.kind = "raises"
    \/ llm.fence = "other"
    \/ llm.body.kind # "object"

C16_InferIsTotal ==
    ctxCall = "soft_infer_context" =>
        /\ inferred.kind = "returned"
        /\ LLMFailed =>
            /\ inferred.val["likely_goal"] = "curiosity"
            /\ inferred.val["soft_concerns"] = <<>>
            /\ inferred.val["confidence_level"] = "uncertain"
            /\ inferred.val["hedge_language"] # ""

\* the client returned a JSON array inside a json fence
C16_Witness ==
    /\ ctxCall = "soft_infer_context"
    /\ llm.kind = "returns"
    /\ llm.fence = "json"
    /\ llm.body.kind = "array"
    /\ inferred.kind = "returned"
    /\ inferred.val["confidence_level"] = "uncertain"

-----------------------------------------------------------------------------
(* Properties of the request handlers *)

\* the chat and analyze/text turns
TextTurns == {r \in slots : turns[r].endpoint \in {"chat", "analyze_text"}}

\* the reasoning call of turn r returned text to the handler
ReasoningReturned(r) == turns[r].pc = "done" /\ turns[r].reasoning = "returned"

\* C12: a chat turn that carries an image, on a session that had a food
\* context stored, clears the stored food context before the follow-up
\* classification, hands no food context to the reasoning call whatever the
\* message is, and completes with the reasoning response.
C12_NewImageClearsFoodContext ==
    \A r \in slots :
        LET turn == turns[r]
        IN (turn.endpoint = "chat" /\ turn.image /\ turn.stored_food_context # NoneResult) =>
            /\ SessionManager_get_food_context(food_contexts, turn.session_id) = NoneResult
            /\ ~turn.use_food_context
            /\ turn.food_context = NoneResult
            /\ turn.pc = "done" =>
                /\ turn.reasoning = "returned"
                /\ turn.response.kind = "StreamingResponse"
                /\ turn.response.content \in ReasoningTexts

C19_UserBeforeReasoningAssistantAfter ==
    \A r \in TextTurns :
        LET turn == turns[r]
            before == RoleContent(turn.history)
            history == RoleContent(History(sessions, turn.session_id))
        IN /\ turn.pc = "reasoning" =>
                history = Append(before, <<"user", turn.message>>)
           /\ ReasoningReturned(r) =>
                history = before \o <<<<"user", turn.message>>,
                                      <<"assistant", turn.response.content>>>>

\* C20: a chat turn whose reasoning call failed has the user message as the
\* last entry of the history, has the inferred context merged into the
\* stored context, and answers with the natural-language fallback stream.
C20_FailedReasoningStillUpdates ==
    \A r \in slots :
        LET turn == turns[r]
            sid == turn.session_id
            history == RoleContent(History(sessions, sid))
            merges == {DictUpdate(turn.context, turn.inferred_context)}
                        \cup {merge_context_gently(turn.context, turn.inferred_context, l) :
                                l \in ConcernListings(turn.context, turn.inferred_context)}
        IN (turn.endpoint = "chat" /\ turn.pc = "done" /\ turn.reasoning # "returned") =>
            /\ history = Append(RoleContent(turn.history), <<"user", turn.message>>)
            /\ Context(sessions, sid) \in merges
            /\ turn.response = StreamingResponse(error_msg)

-----------------------------------------------------------------------------
(* Properties of the stored intent *)

HasIntent(S, sid) == sid \in DOMAIN S /\ "intent" \in DOMAIN S[sid].context
StoredIntent(S, sid) == S[sid].context["intent"]
ConfidenceRank(confidence) ==
    CASE confidence = "low" -> 0 [] confidence = "medium" -> 1 [] confidence = "high" -> 2

\* the requests whose inference is merged and stored in this step
Merging(r) == turns[r].pc = "infer_intent" /\ turns'[r].response.kind = "json"

-----------------------------------------------------------------------------
(* Frame of merge_context_gently *)

\* the step of one merge_context_gently call: before it soft_merged holds the
\* old context, after it the result
MergeStep ==
    ctxCall = "merge_context_gently pending" /\ ctxCall' = "merge_context_gently"

OldConcerns == ToSet(DictGet(soft_merged, "soft_concerns", <<>>))
NewConcerns == ToSet(DictGet(soft_new, "soft_concerns", <<>>))

\* C27: when the new confidence_level is not strictly above the old one, the
\* merge keeps every field of old except soft_concerns, which becomes the
\* union of the old and new concerns cut to 3 entries; when the union has at
\* most 3 entries every old concern is still in the result.
C27_KeepOldAccumulatesConcerns ==
    [][(MergeStep /\ LevelRank(soft_new) <= LevelRank(soft_merged)) =>
          LET result == soft_merged'
              concerns == result["soft_concerns"]
              union == OldConcerns \cup NewConcerns
          IN /\ DOMAIN result = DOMAIN soft_merged \cup {"soft_concerns"}
             /\ \A k \in DOMAIN soft_merged \ {"soft_concerns"} :
                    result[k] = soft_merged[k]
             /\ ToSet(concerns) \subseteq union
             /\ Len(concerns) = Cardinality(ToSet(concerns))
             /\ Len(concerns) = (IF Cardinality(union) <= 3
                                 THEN Cardinality(union) ELSE 3)
             /\ Cardinality(union) <= 3 => OldConcerns \subseteq ToSet(concerns)
      ]_vars

\* a kept context that gained a concern of the new one
C27_Witness ==
    /\ ctxCall = "merge_context_gently"
    /\ LevelRank(soft_new) <= LevelRank(soft_old)
    /\ DictGet(soft_old, "soft_concerns", <<>>) = <<"sugar">>
    /\ ToSet(soft_merged["soft_concerns"]) = {"sugar", "sodium"}
    /\ DictGet(soft_merged, "likely_goal", "") = "health"
    /\ DictGet(soft_new, "likely_goal", "") = "curiosity"

\* C28: when the new confidence_level is strictly above the old one, the merge
\* is new in every field, except that an empty or missing hedge_language is
\* the generic phrase; the result's hedge_language is never empty, and the
\* call leaves both of its arguments as they were.
C28_UpgradeAdoptsNewHedged ==
    [][(MergeStep /\ LevelRank(soft_new) > LevelRank(soft_merged)) =>
          LET result == soft_merged'
              hedge == DictGet(soft_new, "hedge_language", "")
          IN /\ DOMAIN result = DOMAIN soft_new \cup {"hedge_language"}
             /\ \A k \in DOMAIN soft_new \ {"hedge_language"} :
                    result[k] = soft_new[k]
             /\ result["hedge_language"] =
                    (IF hedge = "" THEN "I think this might be about..." ELSE hedge)
             /\ result["hedge_language"] # ""
             /\ soft_new' = soft_new
             /\ soft_old' = soft_merged
      ]_vars

\* an upgrading merge of a new context without hedge_language
C28_Witness ==
    /\ ctxCall = "merge_context_gently"
    /\ LevelRank(soft_new) = 2
    /\ LevelRank(soft_old) = 1
    /\ "hedge_language" \notin DOMAIN soft_new
    /\ soft_merged["hedge_language"] = "I think this might be about..."
    /\ soft_merged["soft_concerns"] = soft_new["soft_concerns"]

-----------------------------------------------------------------------------
(* Session isolation *)

\* the operations that are addressed to one session id
AddressedOps ==
    {"create_session", "create_session_if_not_exists", "delete_session"}
        \cup WriteOps \cup ReadOps

\* C29: an operation addressed to session id A leaves every other existing
\* session B in the store, with its messages, context and intent as they
\* were, in both store classes and in every interleaving of operations.
C29_SessionIsolation ==
    [][lastCall'.op \in AddressedOps =>
          \A B \in DOMAIN sessions \ {lastCall'.sid} :
              /\ B \in DOMAIN sessions'
              /\ History(sessions', B) = History(sessions, B)
              /\ Context(sessions', B) = Context(sessions, B)
              /\ sessions'[B] = sessions[B]
      ]_vars

\* a context write to one session while another session holds messages and
\* a context of its own
C29_Witness ==
    /\ lastCall.op \in ContextOps
    /\ lastCall.known
    /\ \E B \in DOMAIN sessions \ {lastCall.sid} :
          /\ Len(History(sessions, B)) >= 1
          /\ Context(sessions, B) # EmptyDict
          /\ Context(sessions, B) # Context(sessions, lastCall.sid)

-----------------------------------------------------------------------------
(* Expiry of sessions *)

\* the step is a call that looks the session sid up
Accesses(sid) ==
    /\ now' = now
    /\ lastCall'.op \in ReadOps \cup WriteOps
    /\ lastCall'.sid = sid

\* the step is a cleanup_expired_sessions(max_age_hours) call
CleansUp(max_age_hours) ==
    /\ now' = now
    /\ lastCall'.op = "cleanup_expired_sessions"
    /\ lastCall'.arg = max_age_hours

-----------------------------------------------------------------------------
(* The in-memory rate limiter *)

\* the step is a check_rate_limit call for the tool
ChecksLimit(tool_name) ==
    /\ current_time' = current_time
    /\ rlCall'.tool_name = tool_name
    /\ rlCall'.outcome # "none"

\* the bucket the call works on: a new one for a tool without bucket, and a
\* new window once 60 seconds or more have passed since window_start
BucketAtCall(tool_name) ==
    IF tool_name \notin DOMAIN memory_buckets
    THEN [count |-> 0, window_start |-> current_time]
    ELSE IF current_time - memory_buckets[tool_name].window_start >= 60
    THEN [count |-> 0, window_start |-> current_time]
    ELSE memory_buckets[tool_name]

\* C30: per tool name the bucket count never exceeds max_per_minute; a call
\* that gets to the in-memory buckets returns and is counted in the current
\* window while the window is not full, and raises 429 leaving count and
\* window_start as they were once it is full; a call 60 seconds or more
\* after window_start starts a new window with count 0 before it is counted;
\* a call that raises earlier, and the buckets of other tools, change nothing.
C30_InMemoryRateLimit ==
    [][/\ \A tool_name \in DOMAIN memory_buckets' :
             memory_buckets'[tool_name].count <= LimitOf[tool_name]
       /\ \A tool_name \in ToolNames :
             ChecksLimit(tool_name) =>
                 LET bucket == BucketAtCall(tool_name)
                 IN /\ rlCall'.outcome = "429 in the Redis part" =>
                          memory_buckets' = memory_buckets
                    /\ rlCall'.outcome # "429 in the Redis part" =>
                          /\ rlCall'.outcome = "no" <=>
                                bucket.count < LimitOf[tool_name]
                          /\ rlCall'.outcome = "no" =>
                                memory_buckets'[tool_name] =
                                    [bucket EXCEPT !.count = @ + 1]
                          /\ rlCall'.outcome = "429 in the memory part" =>
                                memory_buckets'[tool_name] = bucket
                    /\ \A other \in DOMAIN memory_buckets \ {tool_name} :
                          /\ other \in DOMAIN memory_buckets'
                          /\ memory_buckets'[other] = memory_buckets[other]
      ]_vars

\* without Redis: the call at second 60 returned as the first call of a new
\* window of its tool, while the other tool's window, begun at second 30,
\* stays as it is
C30_Witness ==
    /\ redis_client = "None"
    /\ rlCall.tool_name = "openfoodfacts"
    /\ rlCall.outcome = "no"
    /\ current_time = 60
    /\ "openfoodfacts" \in DOMAIN memory_buckets
    /\ memory_buckets["openfoodfacts"] = [count |-> 1, window_start |-> 60]
    /\ "usda" \in DOMAIN memory_buckets
    /\ memory_buckets["usda"] = [count |-> 1, window_start |-> 30]

-----------------------------------------------------------------------------
(* Requests in flight on one session *)

\* the roles of a session's messages, in order
RolesOf(sid) == [i \in 1..Len(History(sessions, sid)) |-> History(sessions, sid)[i].role]

\* two chat turns on one session that the store knows have both ended
TwoChatTurnsEnded(r1, r2) ==
    /\ r1 # r2
    /\ turns[r1].endpoint = "chat" /\ turns[r1].pc = "done"
    /\ turns[r2].endpoint = "chat" /\ turns[r2].pc = "done"
    /\ turns[r1].session_id = turns[r2].session_id
    /\ turns[r1].session_id \in DOMAIN sessions

-----------------------------------------------------------------------------
(* The food context of a session *)

\* C26: a session's food_context is absent or the snapshot of one product, of
\* a session the store knows, and a session on which a chat turn has brought
\* a new image has no food_context left of the product analyzed before.
C26_FoodContextOneMostRecentProduct ==
    /\ \A sid \in DOMAIN food_contexts :
          /\ sid \in DOMAIN sessions
          /\ food_contexts[sid] \in FoodContexts
    /\ \A r \in slots :
          (turns[r].endpoint = "chat" /\ turns[r].image) =>
              SessionManager_get_food_context(food_contexts, turns[r].session_id)
                  = NoneResult

-----------------------------------------------------------------------------
(* Intent inference once per session *)

\* the step in which task r takes a request and suspends in its inference
\* call: intent_service.infer_intent or soft_infer_context
BeginsInference(r) ==
    /\ turns[r].pc \in {"idle", "done"}
    /\ turns'[r].pc \in {"infer_intent", "soft_infer_context"}

\* C25: a turn invokes the inference only on a session that has nothing
\* stored from an earlier inference: no intent for the intent endpoint, no
\* inferred context for the chat and analyze endpoints; a later turn reuses
\* what is stored.
C25_InferenceOncePerSession ==
    [][\A r \in slots :
          BeginsInference(r) =>
              LET sid == turns'[r].session_id
              IN /\ turns'[r].pc = "infer_intent" => ~HasIntent(sessions, sid)
                 /\ turns'[r].pc = "soft_infer_context" =>
                        "likely_goal" \notin DOMAIN Context(sessions, sid)
      ]_vars

-----------------------------------------------------------------------------
(* The streamed response *)

\* the words of the data events of a list of events, in emission order
RECURSIVE WordsOf(_)
WordsOf(events) ==
    IF events = <<>> THEN <<>>
    ELSE IF Head(events) = DoneEvent THEN WordsOf(Tail(events))
    ELSE Split(Head(events).content) \o WordsOf(Tail(events))

DonePositions == {k \in 1..Len(emitted) : emitted[k] = DoneEvent}

\* C22: the data chunks emitted so far hold, in order and once each, the
\* first words of the response, at most 4 and at least 1 a chunk; [DONE] is
\* emitted once, as the last event, after every word was sent, also when the
\* response has no word; a generator that ran to its end has emitted it.
C22_StreamPreservesOrder ==
    LET words == Split(gen.reasoning_response)
        sent == WordsOf(emitted)
    IN /\ \A k \in 1..Len(emitted) :
             emitted[k] # DoneEvent => Len(Split(emitted[k].content)) \in 1..4
       /\ IsPrefix(sent, words)
       /\ Cardinality(DonePositions) <= 1
       /\ \A k \in DonePositions : k = Len(emitted) /\ sent = words
       /\ gen.pc \in {"yielded [DONE]", "exhausted"} => DonePositions # {}

\* a response of 9 words was streamed to its end: three chunks and [DONE]
C22_Witness ==
    /\ gen.pc = "exhausted"
    /\ Len(Split(gen.reasoning_response)) = 9
    /\ Len(emitted) = 4
    /\ emitted[3].content = "ok "
    /\ emitted[4] = DoneEvent

-----------------------------------------------------------------------------
(* What a chat turn has stored when it starts to stream *)

\* C21: when a chat turn hands its StreamingResponse to the server, before
\* any chunk is sent, the whole text it streams is the last assistant
\* message of the session history, so that a stream cut short loses nothing.
C21_ResponseStoredBeforeStreaming ==
    \A r \in slots :
        LET turn == turns[r]
            history == RoleContent(History(sessions, turn.session_id))
        IN (turn.endpoint = "chat" /\ turn.pc = "done"
                /\ turn.session_id \in DOMAIN sessions) =>
            /\ turn.response.kind = "StreamingResponse"
            /\ Len(history) >= 1
            /\ history[Len(history)] = <<"assistant", turn.response.content>>

====
